---- MODULE Spec2Model ----
(***************************************************************************)
(* illuTag: the scan controller (scanner_engine.ScanEngine), the tagger    *)
(* (tag_processor.TagProcessor.process_image) and the index store          *)
(* (database_manager.DatabaseManager) as a state machine.                  *)
(*                                                                         *)
(* Every `with self.lock:` block of ScanEngine is one atomic action; the   *)
(* code between two blocks (directory test, index listing, os.walk,        *)
(* process_image, save_tags_to_db) is one action per call, so that other   *)
(* threads interleave exactly where the lock is not held.                  *)
(***************************************************************************)
EXTENDS Integers, Sequences, FiniteSets, TLC

(***************************************************************************)
(* Bounds of the model.                                                    *)
(***************************************************************************)
\* start_scan calls made over one run of the program
MaxCalls == 2

\* threads that may call start_scan (the UI handler and rescan-all workers)
Threads == {"t1", "t2"}

(***************************************************************************)
(* The file system, unchanged over a run.  Folder arguments are the raw    *)
(* strings a caller passes; "B/." names directory B in a form that         *)
(* os.path.normpath rewrites, "nodir" is not a directory.                  *)
(***************************************************************************)
FolderArgs == {"A", "B/.", "nodir"}

\* os.path.isdir
IsDir(folder_path) == folder_path \in {"A", "B/."}

\* os.walk(folder_path): the (root, file) pairs in enumeration order
Walk(folder_path) ==
    CASE folder_path = "A"   -> << <<"A", "a1.jpg">>, <<"A", "notes.txt">>, <<"A", "a2.PNG">> >>
      [] folder_path = "B/." -> << <<"B/.", "b1.gif">> >>
      [] OTHER               -> << >>

\* str.lower() on the file names of the model
Lower(file) ==
    CASE file = "a2.PNG" -> "a2.png"
      [] OTHER           -> file

\* the extension a file name ends with
Extension(file) ==
    CASE file \in {"a1.jpg"}    -> ".jpg"
      [] file \in {"a2.png"}    -> ".png"
      [] file \in {"a2.PNG"}    -> ".PNG"
      [] file \in {"b1.gif"}    -> ".gif"
      [] OTHER                  -> ".txt"

SUPPORTED_EXTENSIONS == {".jpg", ".jpeg", ".png", ".gif"}

\* os.path.normpath(os.path.join(root, file)): "B/./b1.gif" becomes "B/b1.gif"
NormDir(root) == IF root = "B/." THEN "B" ELSE root
NormJoin(root, file) == <<NormDir(root), file>>

\* os.path.normpath on a path that is already joined
NormPath(path) == <<NormDir(path[1]), path[2]>>

(***************************************************************************)
(* The tagger.  The model gives one score per tag of tags.txt; scores are  *)
(* in units of 0.00001 so that round(score, 4) is a real conversion.       *)
(***************************************************************************)
TagNames == <<"cat", "hat">>

SCORE_THRESHOLD == 50000

\* the score vectors model.predict can return for an image
Predictions == {<<40000, 40000>>, <<50004, 40000>>, <<40000, 50004>>, <<50004, 50004>>}

\* round(score, 4)
Round4(score) == ((score + 5) \div 10) * 10

\* fault variant: the threshold is not applied
ScoreUnfiltered(score, threshold) == score >= 0

ScoreAtThreshold(score, threshold) == score >= threshold

\* process_image on a readable image: the tags whose score meets the threshold
FilteredTags(prediction) ==
    { [tag_name |-> TagNames[k], score |-> Round4(prediction[k])] :
        k \in {j \in 1..Len(TagNames) : ScoreAtThreshold(prediction[j], SCORE_THRESHOLD)} }

\* what a process_image call can do: return (path, tags) or raise
TaggerOutcomes ==
    {[kind |-> "ok", tags |-> FilteredTags(p)] : p \in Predictions}
    \cup {[kind |-> "ok", tags |-> {}]}          \* unreadable image, predict failed
    \cup {[kind |-> "raised", tags |-> {}]}

NoOutcome == [kind |-> "none", tags |-> {}]

(***************************************************************************)
(* The index store: the images and tags tables.                            *)
(***************************************************************************)
EmptyDb == [images |-> {}, tags |-> {}, seq |-> 0]

\* SELECT file_path FROM images, each normalized
IndexedPaths(d) == {NormPath(row.file_path) : row \in d.images}

\* get_all_indexed_file_paths: the paths, or the empty set on a sqlite error
GetAllIndexedFilePaths(d, ok) == IF ok THEN IndexedPaths(d) ELSE {}

ImageIdOf(d, path) == (CHOOSE row \in d.images : row.file_path = path).image_id

\* INSERT ... ON CONFLICT(file_path) DO UPDATE SET date_scanned
\* fault variant: INSERT OR REPLACE, the row of an indexed path is deleted and
\* inserted anew
UpsertReplaces(d, path) ==
    [d EXCEPT !.images = {row \in @ : row.file_path # path}
                           \cup {[image_id |-> d.seq + 1, file_path |-> path,
                                  is_favorite |-> FALSE]},
              !.seq = @ + 1]

UpsertImage(d, path) ==
    IF \E row \in d.images : row.file_path = path
    THEN d
    ELSE [d EXCEPT !.images = @ \cup {[image_id |-> d.seq + 1, file_path |-> path,
                                       is_favorite |-> FALSE]},
                   !.seq = @ + 1]

\* fault variant: the old tag rows of the image stay
DeleteTagsKeepsOld(d, image_id) == d

\* DELETE FROM tags WHERE image_id = ?
DeleteTags(d, image_id) ==
    [d EXCEPT !.tags = {row \in @ : row.image_id # image_id}]

\* executemany INSERT INTO tags
InsertTags(d, image_id, tags) ==
    [d EXCEPT !.tags = @ \cup {[image_id |-> image_id, tag_name |-> tg.tag_name,
                                score |-> tg.score] : tg \in tags}]

\* save_tags_to_db when every statement and the commit succeed
SaveTagsToDb(d, file_path, tags) ==
    LET path == NormPath(file_path)
        d1   == UpsertImage(d, path)
        id   == ImageIdOf(d1, path)
    IN  InsertTags(DeleteTags(d1, id), id, tags)

\* the tag assignments stored for a path, as {tag_name, score} records
TagsOf(d, path) ==
    IF path \in IndexedPaths(d)
    THEN {[tag_name |-> row.tag_name, score |-> row.score] :
            row \in {r \in d.tags : r.image_id = ImageIdOf(d, path)}}
    ELSE {}

\* fault variant: the UPDATE has no WHERE clause and flips every image
ToggleFlagOfAll(d, image_id) ==
    [d EXCEPT !.images = {[row EXCEPT !.is_favorite = ~row.is_favorite] : row \in d.images}]

\* UPDATE images SET is_favorite = 1 - is_favorite WHERE image_id = ?
ToggleFlag(d, image_id) ==
    [d EXCEPT !.images =
        {[row EXCEPT !.is_favorite = IF row.image_id = image_id
                                     THEN ~row.is_favorite ELSE row.is_favorite] :
           row \in d.images}]

\* SELECT is_favorite ... fetchone(), then bool(new_status['is_favorite'])
\* or False when there is no row
NewStatus(d, image_id) ==
    IF \E row \in d.images : row.image_id = image_id
    THEN (CHOOSE row \in d.images : row.image_id = image_id).is_favorite
    ELSE FALSE

\* get_all_indexed_images: tags INNER JOIN images, grouped by image
GetAllIndexedImages(d) ==
    {[image_id |-> img.image_id, file_path |-> img.file_path,
      is_favorite |-> img.is_favorite,
      tags |-> {[tag_name |-> row.tag_name, score |-> row.score] :
                  row \in {r \in d.tags : r.image_id = img.image_id}}] :
       img \in {i \in d.images : \E r \in d.tags : r.image_id = i.image_id}}

\* the tag content of the index: path -> tag assignments
TagContent(d) == [path \in IndexedPaths(d) |-> TagsOf(d, path)]


(***************************************************************************)
(* The scan status record and the blocks that update it under the lock.    *)
(***************************************************************************)
InitStatus ==
    [is_scanning |-> FALSE, total_files |-> 0, files_processed |-> 0,
     progress_percent |-> 0, folder |-> ""]

(***************************************************************************)
(* Python float arithmetic (IEEE 754 binary64, round to nearest even), as  *)
(* far as the progress percentage uses it.  A positive float is a record   *)
(* [bits, pt]: bits is its 53-bit significand, most significant bit first  *)
(* and set, and pt is the number of bits before the binary point, so that  *)
(* the value is the sum of bits[i] * 2^(pt - i).  Zero has no bits.  Long  *)
(* numbers are worked on in limbs of 15 bits, most significant limb first. *)
(***************************************************************************)
MantissaBits == 53
LimbBits == 15
LimbBase == 2^LimbBits

FloatZero == [bits |-> << >>, pt |-> 0]

Zeros(n) == [i \in 1..n |-> 0]

\* the natural number a digit sequence stands for
NatOfBits(bits) ==
    LET F[k \in 0..Len(bits)] == IF k = 0 THEN 0 ELSE 2 * F[k - 1] + bits[k]
    IN  F[Len(bits)]

\* the binary digits of a limb sequence
BitsOfLimbs(limbs) ==
    [i \in 1..(LimbBits * Len(limbs)) |->
       (limbs[((i - 1) \div LimbBits) + 1] \div 2^(LimbBits - 1 - ((i - 1) % LimbBits))) % 2]

\* the limbs of a digit sequence whose length is a multiple of the limb size
LimbsOfBits(bits) ==
    [k \in 1..(Len(bits) \div LimbBits) |->
       NatOfBits(SubSeq(bits, LimbBits * (k - 1) + 1, LimbBits * k))]

\* a limb sequence times a small number, in as many limbs
MulLimbs(limbs, m) ==
    LET n == Len(limbs)
        G[k \in 0..n] ==
          IF k = 0 THEN [limbs |-> << >>, carry |-> 0]
          ELSE LET prev == G[k - 1]
                   v == limbs[n - k + 1] * m + prev.carry
               IN  [limbs |-> <<v % LimbBase>> \o prev.limbs, carry |-> v \div LimbBase]
    IN  G[n].limbs

\* the quotient p \div t in one limb, then n limbs of the fraction, and what is
\* left of the division (p < 2^15 * t, t < 2^16)
QuotientLimbs(p, t, n) ==
    LET Q[k \in 0..n] ==
          IF k = 0 THEN [limbs |-> <<p \div t>>, rem |-> p % t]
          ELSE LET prev == Q[k - 1]
               IN  [limbs |-> Append(prev.limbs, (prev.rem * LimbBase) \div t),
                    rem |-> (prev.rem * LimbBase) % t]
    IN  Q[n]

\* the position of the first set digit
FirstOne(bits) ==
    CHOOSE i \in 1..Len(bits) : bits[i] = 1 /\ \A j \in 1..(i - 1) : bits[j] = 0

\* a 53-bit significand plus one unit in the last place
NextUp(keep, pt) ==
    LET clear == {i \in 1..MantissaBits : keep[i] = 0}
    IN  IF clear = {}
        THEN [bits |-> <<1>> \o Zeros(MantissaBits - 1), pt |-> pt + 1]
        ELSE LET last0 == CHOOSE i \in clear : \A j \in clear : j <= i
             IN  [bits |-> [i \in 1..MantissaBits |->
                              IF i < last0 THEN keep[i] ELSE IF i = last0 THEN 1 ELSE 0],
                  pt |-> pt]

\* round a digit sequence of more than 53 digits that starts with a set digit
\* to 53 bits, to nearest and to even on a tie; pt is the position of the
\* binary point in it, and inexact says that value was lost below its digits
RoundNearestEven(digits, pt, inexact) ==
    LET keep == SubSeq(digits, 1, MantissaBits)
        guard == digits[MantissaBits + 1]
        sticky == inexact \/ \E i \in (MantissaBits + 2)..Len(digits) : digits[i] = 1
    IN  IF guard = 1 /\ (sticky \/ keep[MantissaBits] = 1)
        THEN NextUp(keep, pt)
        ELSE [bits |-> keep, pt |-> pt]

\* p / t for two ints, t > 0: the quotient correctly rounded
FloatDiv(p, t) ==
    IF p = 0 THEN FloatZero
    ELSE LET q == QuotientLimbs(p, t, 8)
             raw == BitsOfLimbs(q.limbs)
             first == FirstOne(raw)
         IN  RoundNearestEven(SubSeq(raw, first, Len(raw)), LimbBits - (first - 1),
                              q.rem # 0)

\* x * 100 for a float x: the product correctly rounded
FloatTimes100(x) ==
    IF x = FloatZero THEN FloatZero
    ELSE LET limbs == LimbsOfBits(Zeros(5 * LimbBits - MantissaBits) \o x.bits)
             raw == BitsOfLimbs(MulLimbs(limbs, 100))
             digits == SubSeq(raw, FirstOne(raw), Len(raw))
         IN  RoundNearestEven(digits, x.pt - MantissaBits + Len(digits), FALSE)

\* int(x) for a float x >= 0: the digits before the binary point
FloatToInt(x) ==
    IF x.pt <= 0 THEN 0 ELSE NatOfBits(SubSeq(x.bits, 1, x.pt))

\* int((processed / total) * 100) in float arithmetic
FloatPercent(processed, total) == FloatToInt(FloatTimes100(FloatDiv(processed, total)))

\* the percentages of the small scans, worked out once
SmallPercents == [total \in 1..4 |-> [processed \in 0..8 |-> FloatPercent(processed, total)]]

\* int((files_processed / total_files) * 100)
Percent(processed, total) ==
    IF total \in DOMAIN SmallPercents /\ processed \in DOMAIN SmallPercents[total]
    THEN SmallPercents[total][processed]
    ELSE FloatPercent(processed, total)

\* fault variant: the start test never turns a request away
AlreadyRunningNever(st) == FALSE

\* fault variant: the start test looks at the progress made, not at the flag alone
AlreadyRunningOnceCounting(st) == st.is_scanning /\ st.total_files > 0

\* the test that turns a start request away
AlreadyRunning(st) == st.is_scanning

\* start_scan, first locked block, when no scan is running
EnterScanning(st, folder) ==
    [is_scanning |-> TRUE, total_files |-> 0, files_processed |-> 0,
     progress_percent |-> 0, folder |-> folder]

\* fault variant: the invalid-folder return leaves the flag set
LeaveInvalidKeepsFlag(st) == st

\* start_scan, the locked block of the invalid-folder return
LeaveInvalid(st) == [st EXCEPT !.is_scanning = FALSE]

\* the files os.walk yields that pass the extension filter, normalized, in order
AllFilesInFolder(folder) ==
    LET listing == Walk(folder)
        keep(k) == Extension(Lower(listing[k][2])) \in SUPPORTED_EXTENSIONS
        F[k \in 0..Len(listing)] ==
            IF k = 0 THEN << >>
            ELSE IF keep(k) THEN Append(F[k - 1], NormJoin(listing[k][1], listing[k][2]))
                 ELSE F[k - 1]
    IN  F[Len(listing)]

\* fault variant: the skip test with the mode inverted
SkippedIfForced(path, force, already) == force /\ path \in already

\* whether the first pass leaves a discovered file out of files_to_scan
Skipped(path, force, already) == ~force /\ path \in already

\* the files the first pass keeps for tagging
FilesToScan(folder, force, already) ==
    SelectSeq(AllFilesInFolder(folder), LAMBDA path : ~Skipped(path, force, already))

\* the initial files_processed of a scan
InitialProcessed(force, already) == IF force THEN 0 ELSE Cardinality(already)

\* start_scan, the locked block that sets the totals
SetTotals(st, nAll, force, already) ==
    LET processed == InitialProcessed(force, already)
    IN  [st EXCEPT !.total_files = nAll,
                   !.files_processed = processed,
                   !.progress_percent = IF nAll > 0 THEN Percent(processed, nAll) ELSE 0]

\* start_scan, the locked block after each file
Progress(st, total) ==
    LET processed == st.files_processed + 1
    IN  [st EXCEPT !.files_processed = processed,
                   !.progress_percent = IF total > 0 THEN Percent(processed, total) ELSE 100]

\* fault variant: the finally clause resets the flag and leaves the counters
FinalizeFlagOnly(st) == [st EXCEPT !.is_scanning = FALSE]

\* start_scan, the locked block of the finally clause
Finalize(st) ==
    IF st.total_files > 0
    THEN [st EXCEPT !.is_scanning = FALSE, !.files_processed = st.total_files,
                    !.progress_percent = 100]
    ELSE IF st.total_files = 0
    THEN [st EXCEPT !.is_scanning = FALSE, !.files_processed = 0,
                    !.progress_percent = 0]
    ELSE [st EXCEPT !.is_scanning = FALSE]


(***************************************************************************)
(* State.                                                                  *)
(***************************************************************************)
VARIABLES
    status,                 \* ScanEngine.status
    db,                     \* the index store
    pc,                     \* per thread: where its start_scan call stands
    folder_path,            \* per thread: argument of the call
    force_rescan,           \* per thread: argument of the call
    already_indexed_paths,  \* per thread: local of start_scan
    files_to_scan,          \* per thread: local of start_scan
    n_all_files,            \* per thread: len(all_files_in_folder)
    total_files,            \* per thread: local read from status after the totals
    idx,                    \* per thread: position of the loop in files_to_scan
    tags_list,              \* per thread: what process_image gave for the file
    save_result,            \* per thread: what save_tags_to_db gave for the file
    tagged,                 \* per thread: paths handed to process_image in the call
    tag_calls,              \* per thread: the process_image calls of the call, in order
    status_before,          \* per thread: the status record as the call found it
    scansStarted,           \* calls that entered Scanning so far
    callsRejected,          \* calls turned away as already running so far
    statusScan,             \* number of the scan that last wrote the status
    last,                   \* the scan that ended last: folder, mode, how it ended
    snap,                   \* a status poller: the last get_status result
    lock,                   \* ScanEngine.lock: the thread inside a with block, or "none"
    held,                   \* a caller of get_status that keeps the dict it was given
    wpos,                   \* per thread: 0, or the allow-list entry its scan_all loop is at
    wlog,                   \* per thread: the list entries its scan_all loop has had scanned
    reply,                  \* what the last rescan-all request returned
    txn,                    \* per connection: the save_tags_to_db call that uses it
    writer,                 \* the connection that holds the store's write lock, or "none"
    lastSaved,              \* per path: <<tag list of the last save that committed>>, <<>> if none has
    saves,                  \* save_tags_to_db calls made directly on the store so far
    dict,                   \* the DictionaryManager: its load position and its three mappings
    ask,                    \* the call of a DictionaryManager method or of
                            \* search_images_wrapper being answered, and its answer
    toggled                 \* the last toggle_favorite_status call and what it returned

locals == <<folder_path, force_rescan, already_indexed_paths, files_to_scan,
            n_all_files, total_files, idx, tags_list, save_result, tagged,
            tag_calls, status_before>>
counters == <<scansStarted, callsRejected>>
engineVars == <<status, pc, locals, counters, statusScan, last, snap>>
scanVars == <<status, db, pc, locals, counters, statusScan, last, snap>>
rescanVars == <<wpos, wlog, reply>>
storeVars == <<txn, writer, lastSaved, saves>>
uiVars == <<dict, ask, toggled>>
ext == <<lock, held, rescanVars, storeVars, uiVars>>
vars == <<scanVars, ext>>

NoScan == [folder |-> "", force |-> FALSE, how |-> "none"]
NoSnap == [taken |-> FALSE, st |-> InitStatus, scan |-> 0, invalid_call |-> FALSE]

NoHeld == [taken |-> FALSE, ref |-> "copy", st |-> InitStatus, written |-> FALSE]

\* the connections of the callers that use the store side by side
Conns == {"c1", "c2"}

\* the paths and tag lists the callers save
SavePaths == {<<"A", "a1.jpg">>, <<"B/.", "b1.gif">>}
TagLists == {FilteredTags(p) : p \in Predictions}

\* DictionaryManager.__init__ before _load_dictionary has run
NoDict ==
    [pc |-> "unloaded", source |-> "none", rows |-> << >>, i |-> 0, cn_to_en_tag |-> << >>,
     en_to_cn_tag |-> << >>, all_cn_tags |-> << >>]

NoAsk == [op |-> "none"]
NoToggle == [op |-> "none"]

NoTxn ==
    [pc |-> "idle", file_path |-> << >>, tags |-> {}, image_id |-> 0,
     work |-> EmptyDb, before |-> EmptyDb, result |-> "none", failed_at |-> "none",
     raced |-> FALSE]

\* the state outside the scan engine's status and calls, after construction
InitExt ==
    /\ lock = "none"
    /\ held = NoHeld
    /\ wpos = [t \in Threads |-> 0]
    /\ wlog = [t \in Threads |-> << >>]
    /\ reply = "none"
    /\ txn = [c \in Conns |-> NoTxn]
    /\ writer = "none"
    /\ lastSaved = [path \in {NormPath(p) : p \in SavePaths} |-> <<>>]
    /\ saves = 0
    /\ dict = NoDict
    /\ ask = NoAsk
    /\ toggled = NoToggle

Init ==
    /\ status = InitStatus
    /\ db = EmptyDb
    /\ pc = [t \in Threads |-> "idle"]
    /\ folder_path = [t \in Threads |-> ""]
    /\ force_rescan = [t \in Threads |-> FALSE]
    /\ already_indexed_paths = [t \in Threads |-> {}]
    /\ files_to_scan = [t \in Threads |-> << >>]
    /\ n_all_files = [t \in Threads |-> 0]
    /\ total_files = [t \in Threads |-> 0]
    /\ idx = [t \in Threads |-> 0]
    /\ tags_list = [t \in Threads |-> NoOutcome]
    /\ save_result = [t \in Threads |-> "none"]
    /\ tagged = [t \in Threads |-> {}]
    /\ tag_calls = [t \in Threads |-> << >>]
    /\ status_before = [t \in Threads |-> InitStatus]
    /\ scansStarted = 0
    /\ callsRejected = 0
    /\ statusScan = 0
    /\ last = NoScan
    /\ snap = NoSnap
    /\ InitExt

\* the locals of a call that has returned
ClearLocals(t) ==
    /\ folder_path' = [folder_path EXCEPT ![t] = ""]
    /\ force_rescan' = [force_rescan EXCEPT ![t] = FALSE]
    /\ already_indexed_paths' = [already_indexed_paths EXCEPT ![t] = {}]
    /\ files_to_scan' = [files_to_scan EXCEPT ![t] = << >>]
    /\ n_all_files' = [n_all_files EXCEPT ![t] = 0]
    /\ total_files' = [total_files EXCEPT ![t] = 0]
    /\ idx' = [idx EXCEPT ![t] = 0]
    /\ tags_list' = [tags_list EXCEPT ![t] = NoOutcome]
    /\ save_result' = [save_result EXCEPT ![t] = "none"]
    /\ tagged' = [tagged EXCEPT ![t] = {}]
    /\ tag_calls' = [tag_calls EXCEPT ![t] = << >>]
    /\ status_before' = [status_before EXCEPT ![t] = InitStatus]

(***************************************************************************)
(* start_scan, step by step.                                               *)
(***************************************************************************)
\* first locked block, a scan is running: the call returns at once
StartScanRejected(t) ==
    /\ pc[t] = "idle"
    /\ scansStarted + callsRejected < MaxCalls
    /\ AlreadyRunning(status)
    /\ callsRejected' = callsRejected + 1
    /\ UNCHANGED <<status, db, pc, locals, scansStarted, statusScan, last, snap>>

\* first locked block, no scan is running: the status is reset for the new scan
StartScanAccepted(t, folder, force) ==
    /\ pc[t] = "idle"
    /\ scansStarted + callsRejected < MaxCalls
    /\ ~AlreadyRunning(status)
    /\ status' = EnterScanning(status, folder)
    /\ scansStarted' = scansStarted + 1
    /\ statusScan' = scansStarted + 1
    /\ pc' = [pc EXCEPT ![t] = "check_dir"]
    /\ folder_path' = [folder_path EXCEPT ![t] = folder]
    /\ force_rescan' = [force_rescan EXCEPT ![t] = force]
    /\ tagged' = [tagged EXCEPT ![t] = {}]
    /\ tag_calls' = [tag_calls EXCEPT ![t] = << >>]
    /\ status_before' = [status_before EXCEPT ![t] = status]
    /\ UNCHANGED <<db, already_indexed_paths, files_to_scan, n_all_files, total_files,
                   idx, tags_list, save_result, callsRejected, last, snap>>

\* os.path.isdir fails: second locked block, then return
InvalidFolderReturn(t) ==
    /\ pc[t] = "check_dir"
    /\ ~IsDir(folder_path[t])
    /\ status' = LeaveInvalid(status)
    /\ pc' = [pc EXCEPT ![t] = "idle"]
    /\ ClearLocals(t)
    /\ UNCHANGED <<db, counters, statusScan, last, snap>>

\* os.path.isdir holds: enter the try block
ValidFolder(t) ==
    /\ pc[t] = "check_dir"
    /\ IsDir(folder_path[t])
    /\ pc' = [pc EXCEPT ![t] = "list_indexed"]
    /\ UNCHANGED <<status, db, locals, counters, statusScan, last, snap>>

\* step 1: the skip set (empty when forced; the store answers, or fails to {})
ListIndexed(t) ==
    /\ pc[t] = "list_indexed"
    /\ \E ok \in BOOLEAN :
         already_indexed_paths' =
           [already_indexed_paths EXCEPT
              ![t] = IF force_rescan[t] THEN {} ELSE GetAllIndexedFilePaths(db, ok)]
    /\ pc' = [pc EXCEPT ![t] = "walk"]
    /\ UNCHANGED <<status, db, folder_path, force_rescan, files_to_scan, n_all_files,
                   total_files, idx, tags_list, save_result, tagged, tag_calls, status_before, counters,
                   statusScan, last, snap>>

\* step 2: the first pass over the folder
Enumerate(t) ==
    /\ pc[t] = "walk"
    /\ n_all_files' = [n_all_files EXCEPT ![t] = Len(AllFilesInFolder(folder_path[t]))]
    /\ files_to_scan' = [files_to_scan EXCEPT
         ![t] = FilesToScan(folder_path[t], force_rescan[t], already_indexed_paths[t])]
    /\ pc' = [pc EXCEPT ![t] = "set_totals"]
    /\ UNCHANGED <<status, db, folder_path, force_rescan, already_indexed_paths,
                   total_files, idx, tags_list, save_result, tagged, tag_calls, status_before, counters,
                   statusScan, last, snap>>

\* an error the body does not expect, raised while listing or enumerating:
\* control passes to the outer except and then to the finally clause
RaiseUnexpected(t) ==
    /\ pc[t] \in {"list_indexed", "walk"}
    /\ pc' = [pc EXCEPT ![t] = "finally_error"]
    /\ UNCHANGED <<status, db, locals, counters, statusScan, last, snap>>

\* step 3: the locked block that sets total_files and the initial files_processed
SetTotalsStep(t) ==
    /\ pc[t] = "set_totals"
    /\ status' = SetTotals(status, n_all_files[t], force_rescan[t],
                           already_indexed_paths[t])
    /\ pc' = [pc EXCEPT ![t] = "read_total"]
    /\ UNCHANGED <<db, locals, counters, statusScan, last, snap>>

\* total_files = self.status["total_files"], read without the lock
ReadTotal(t) ==
    /\ pc[t] = "read_total"
    /\ total_files' = [total_files EXCEPT ![t] = status.total_files]
    /\ idx' = [idx EXCEPT ![t] = 1]
    /\ pc' = [pc EXCEPT ![t] = IF Len(files_to_scan[t]) >= 1 THEN "tag" ELSE "finally"]
    /\ UNCHANGED <<status, db, folder_path, force_rescan, already_indexed_paths,
                   files_to_scan, n_all_files, tags_list, save_result, tagged,
                   tag_calls, status_before, counters, statusScan, last, snap>>

\* fault variant: an exception of process_image leaves the loop
AfterTagRaiseLeavesLoop(outcome) ==
    IF outcome.kind = "raised" THEN "finally_error"
    ELSE IF outcome.tags # {} THEN "save" ELSE "progress"

\* where the loop body goes after process_image: save_tags_to_db is called for
\* a non-empty tag list; an empty list or an exception goes on to the progress block
AfterTag(outcome) ==
    IF outcome.kind = "ok" /\ outcome.tags # {} THEN "save" ELSE "progress"

\* step 4a: process_image on the current file
TagFile(t) ==
    /\ pc[t] = "tag"
    /\ \E outcome \in TaggerOutcomes :
         /\ tags_list' = [tags_list EXCEPT ![t] = outcome]
         /\ pc' = [pc EXCEPT ![t] = AfterTag(outcome)]
    /\ tagged' = [tagged EXCEPT ![t] = @ \cup {files_to_scan[t][idx[t]]}]
    /\ tag_calls' = [tag_calls EXCEPT ![t] = Append(@, files_to_scan[t][idx[t]])]
    /\ save_result' = [save_result EXCEPT ![t] = "none"]
    /\ UNCHANGED <<status, db, folder_path, force_rescan, already_indexed_paths,
                   files_to_scan, n_all_files, total_files, idx, status_before, counters,
                   statusScan, last, snap>>

\* step 4b: save_tags_to_db commits and returns True
SaveOk(t) ==
    /\ pc[t] = "save"
    /\ db' = SaveTagsToDb(db, files_to_scan[t][idx[t]], tags_list[t].tags)
    /\ save_result' = [save_result EXCEPT ![t] = "saved"]
    /\ pc' = [pc EXCEPT ![t] = "progress"]
    /\ UNCHANGED <<status, folder_path, force_rescan, already_indexed_paths,
                   files_to_scan, n_all_files, total_files, idx, tags_list, tagged,
                   tag_calls, status_before, counters, statusScan, last, snap>>

\* step 4b: save_tags_to_db rolls back and returns False, or raises
SaveFails(t) ==
    /\ pc[t] = "save"
    /\ \E how \in {"failed", "raised"} :
         save_result' = [save_result EXCEPT ![t] = how]
    /\ pc' = [pc EXCEPT ![t] = "progress"]
    /\ UNCHANGED <<status, db, folder_path, force_rescan, already_indexed_paths,
                   files_to_scan, n_all_files, total_files, idx, tags_list, tagged,
                   tag_calls, status_before, counters, statusScan, last, snap>>

\* step 4c: the locked block that counts the file, then the next iteration
ProgressStep(t) ==
    /\ pc[t] = "progress"
    /\ status' = Progress(status, total_files[t])
    /\ idx' = [idx EXCEPT ![t] = @ + 1]
    /\ tags_list' = [tags_list EXCEPT ![t] = NoOutcome]
    /\ save_result' = [save_result EXCEPT ![t] = "none"]
    /\ pc' = [pc EXCEPT ![t] = IF idx[t] < Len(files_to_scan[t]) THEN "tag" ELSE "finally"]
    /\ UNCHANGED <<db, folder_path, force_rescan, already_indexed_paths, files_to_scan,
                   n_all_files, total_files, tagged, tag_calls, status_before, counters, statusScan, last, snap>>

\* step 5: the locked block of the finally clause, then return
FinallyStep(t) ==
    /\ pc[t] \in {"finally", "finally_error"}
    /\ status' = Finalize(status)
    /\ last' = [folder |-> folder_path[t], force |-> force_rescan[t],
                how |-> IF pc[t] = "finally" THEN "completed" ELSE "error"]
    /\ pc' = [pc EXCEPT ![t] = "idle"]
    /\ ClearLocals(t)
    /\ UNCHANGED <<db, counters, statusScan, snap>>

(***************************************************************************)
(* get_status, called by a poller thread.                                  *)
(***************************************************************************)
\* whether a call for a folder that is no directory stands before its return
InvalidCallInProgress ==
    \E t \in Threads : pc[t] = "check_dir" /\ ~IsDir(folder_path[t])

\* with self.lock: return self.status.copy()
StatusCopy(st) == st

GetStatus ==
    /\ snap' = [taken |-> TRUE, st |-> StatusCopy(status), scan |-> statusScan,
                invalid_call |-> InvalidCallInProgress]
    /\ snap' # snap
    /\ UNCHANGED <<status, db, pc, locals, counters, statusScan, last>>

(***************************************************************************)
(* Specifications.                                                         *)
(***************************************************************************)
\* the steps of a start_scan call after its first locked block; each with
\* block is one step, taken when the lock is free
ScanStep(t) ==
    /\ \/ InvalidFolderReturn(t)
       \/ ValidFolder(t)
       \/ ListIndexed(t)
       \/ Enumerate(t)
       \/ RaiseUnexpected(t)
       \/ SetTotalsStep(t)
       \/ ReadTotal(t)
       \/ TagFile(t)
       \/ SaveOk(t)
       \/ SaveFails(t)
       \/ ProgressStep(t)
       \/ FinallyStep(t)
    /\ UNCHANGED ext

Next ==
    \/ \E t \in Threads : StartScanRejected(t) /\ UNCHANGED ext
    \/ \E t \in Threads, folder \in FolderArgs, force \in BOOLEAN :
         StartScanAccepted(t, folder, force) /\ UNCHANGED ext
    \/ \E t \in Threads : ScanStep(t)

Spec == Init /\ [][Next]_vars


\* the scan engine together with a thread that polls get_status
NextPoll == Next \/ (GetStatus /\ UNCHANGED ext)

SpecPoll == Init /\ [][NextPoll]_vars

\* a thread inside start_scan keeps running: every tagger and store call
\* returns or raises, and the lock is held only for a short block
FairSpec == Spec /\ \A t \in Threads : WF_vars(ScanStep(t))


(***************************************************************************)
(* Properties of the scan controller.                                      *)
(***************************************************************************)
\* the threads whose start_scan call stands between setting is_scanning and
\* resetting it
Active == {t \in Threads : pc[t] # "idle"}

AllIdle == \A t \in Threads : pc[t] = "idle"

StatusCounters(st) ==
    <<st.total_files, st.files_processed, st.progress_percent, st.folder>>

\* the file the loop of thread t is at
CurrentFile(t) == files_to_scan[t][idx[t]]

\* a status that reports no partial progress
Terminal(st) ==
    \/ st.total_files > 0 /\ st.files_processed = st.total_files
         /\ st.progress_percent = 100
    \/ st.total_files = 0 /\ st.files_processed = 0 /\ st.progress_percent = 0

\* C1: for every interleaving of start_scan calls from several threads, at most
\* one call stands between setting is_scanning to true and resetting it, so no
\* two calls enumerate, tag or save at the same time; while one does, the flag
\* is set.
C1_OneScanAtATime ==
    /\ Cardinality(Active) <= 1
    /\ Active # {} => status.is_scanning

\* C1 witness: one thread is saving tags after another call was turned away
C1_Witness ==
    /\ callsRejected > 0
    /\ \E t \in Threads : pc[t] = "save"

\* C2: a start_scan call made while is_scanning is true changes no field of
\* the status record, invokes no tagger, writes nothing to the index store
\* and leaves no call pending: every thread stands where it stood.
C2_RejectedCallIsNoOp ==
    [][(status.is_scanning
          /\ scansStarted' + callsRejected' # scansStarted + callsRejected)
        => /\ status' = status
           /\ db' = db
           /\ tagged' = tagged
           /\ pc' = pc
           /\ locals' = locals]_vars

\* C2 witness: a call was turned away during a scan that had counted a file
C2_Witness ==
    /\ callsRejected > 0
    /\ status.is_scanning
    /\ status.files_processed > 0

\* C3: a start_scan call for a folder that is no directory never shows
\* is_scanning true to a concurrent get_status.
C3_InvalidFolderNeverScanning ==
    (snap.taken /\ snap.invalid_call) => ~snap.st.is_scanning

\* C4: when a start_scan call for a folder that is no directory returns, the
\* counters and the folder of the status record are what the call found, and
\* the call has not written to the index store.
C4_InvalidFolderNoChange ==
    [][\A t \in Threads :
         (pc[t] = "check_dir" /\ ~IsDir(folder_path[t]) /\ pc'[t] = "idle")
         => /\ StatusCounters(status') = StatusCounters(status_before[t])
            /\ db' = db]_vars

\* C5: the files_processed values a poller reads during one scan, from the
\* entry into Scanning to the return to Idle, never decrease, and the value
\* read once the scan is over is total_files when total_files > 0.
C5_ProgressMonotonic ==
    [][(snap.taken /\ snap.st.is_scanning /\ snap'.scan = snap.scan)
        => /\ snap'.st.files_processed >= snap.st.files_processed
           /\ (~snap'.st.is_scanning /\ snap'.st.total_files > 0)
                => snap'.st.files_processed = snap'.st.total_files]_vars

\* C6: whenever a scan that entered Scanning has ended, normally or after an
\* unexpected error, is_scanning is false and the status reports either
\* total_files > 0 with files_processed = total_files and 100 percent, or
\* all three at 0.
C6_TerminalStatus ==
    AllIdle => (~status.is_scanning /\ Terminal(status))

\* C6 witness: a scan has ended through the outer except
C6_Witness ==
    /\ AllIdle
    /\ last.how = "error"
    /\ ~status.is_scanning

C8_SkipSetRespected ==
    \A t \in Threads :
      (pc[t] # "idle" /\ ~force_rescan[t])
      => /\ tagged[t] \cap already_indexed_paths[t] = {}
         /\ \A path \in tagged[t] :
              \E k \in 1..Len(AllFilesInFolder(folder_path[t])) :
                AllFilesInFolder(folder_path[t])[k] = path

\* C8 witness: a non-forced scan has tagged a file of a folder in which another
\* file was in the skip set
C8_Witness ==
    \E t \in Threads :
      /\ ~force_rescan[t]
      /\ tagged[t] # {}
      /\ \E k \in 1..Len(AllFilesInFolder(folder_path[t])) :
           AllFilesInFolder(folder_path[t])[k] \in already_indexed_paths[t]

\* the call of thread t repeats, non-forced, the non-forced scan of the same
\* folder that ended last
RepeatsLastScan(t) ==
    /\ pc[t] # "idle"
    /\ ~force_rescan[t]
    /\ last.how = "completed"
    /\ ~last.force
    /\ last.folder = folder_path[t]

\* C9: a non-forced scan run right after a non-forced scan of the same
\* unchanged folder invokes the tagger on no file and leaves the tag content
\* of the index as the first scan left it.
C9_SecondScanIdempotent ==
    [][\A t \in Threads :
         RepeatsLastScan(t)
         => /\ tagged'[t] = {}
            /\ TagContent(db') = TagContent(db)]_vars

\* C10: after a forced rescan has tagged an indexed image and the tagger gave
\* the tag set T2 (and the store reported no failure), the index holds exactly
\* T2 for that image.
C10_ForcedRescanReplaces ==
    \A t \in Threads :
      (/\ pc[t] = "progress"
       /\ force_rescan[t]
       /\ tags_list[t].kind = "ok"
       /\ save_result[t] \notin {"failed", "raised"}
       /\ CurrentFile(t) \in IndexedPaths(db))
      => TagsOf(db, CurrentFile(t)) = tags_list[t].tags

(***************************************************************************)
(* C11: a single file's failure never aborts a scan.                       *)
(***************************************************************************)
\* the first n entries of a sequence
Prefix(seq, n) == SubSeq(seq, 1, n)

\* C11: whatever the earlier files of the loop ended in (an exception of the
\* tagger, an empty tag list, a save that returned failure, a save that raised),
\* process_image is called once for every entry of files_to_scan, in order, and
\* files_processed is incremented once for every entry: while the loop stands
\* at entry idx the calls so far are the first idx - 1 or idx entries and the
\* counter is its initial value plus idx - 1, the loop ends with one call and
\* one increment per entry, and no scan reaches the outer except from the loop
C11_FileFailureNeverAborts ==
    \A t \in Threads :
      LET seed == InitialProcessed(force_rescan[t], already_indexed_paths[t])
      IN  /\ pc[t] = "tag" =>
               /\ tag_calls[t] = Prefix(files_to_scan[t], idx[t] - 1)
               /\ status.files_processed = seed + idx[t] - 1
          /\ pc[t] \in {"save", "progress"} =>
               /\ tag_calls[t] = Prefix(files_to_scan[t], idx[t])
               /\ status.files_processed = seed + idx[t] - 1
          /\ pc[t] = "finally" =>
               /\ tag_calls[t] = files_to_scan[t]
               /\ status.files_processed = seed + Len(files_to_scan[t])
          /\ pc[t] = "finally_error" => tag_calls[t] = << >>

\* a loop over two files has ended although the store failed or raised on the
\* save of its second file, after both files were tagged
C11_Witness ==
    \E t \in Threads :
      /\ pc[t] = "progress"
      /\ idx[t] = 2
      /\ Len(files_to_scan[t]) = 2
      /\ save_result[t] \in {"failed", "raised"}
      /\ tag_calls[t] = files_to_scan[t]

(***************************************************************************)
(* C12: the progress percentage of a large folder.  One forced scan of a   *)
(* folder of n images in which the tagger finds no tag: the scan is taken  *)
(* up after its first pass, and every locked block of start_scan that      *)
(* writes the status is run as in the scan above.                          *)
(***************************************************************************)
MaxTotal == 50

\* the i-th image os.walk yields in the large folder
BigFile(i) == <<"big", i>>

InitPercent ==
    /\ \E n \in 1..MaxTotal :
         /\ n_all_files = [t \in Threads |-> IF t = "t1" THEN n ELSE 0]
         /\ files_to_scan = [t \in Threads |->
                               IF t = "t1" THEN [i \in 1..n |-> BigFile(i)] ELSE << >>]
    /\ status = EnterScanning(InitStatus, "big")
    /\ db = EmptyDb
    /\ pc = [t \in Threads |-> IF t = "t1" THEN "set_totals" ELSE "idle"]
    /\ folder_path = [t \in Threads |-> IF t = "t1" THEN "big" ELSE ""]
    /\ force_rescan = [t \in Threads |-> t = "t1"]
    /\ already_indexed_paths = [t \in Threads |-> {}]
    /\ total_files = [t \in Threads |-> 0]
    /\ idx = [t \in Threads |-> 0]
    /\ tags_list = [t \in Threads |-> NoOutcome]
    /\ save_result = [t \in Threads |-> "none"]
    /\ tagged = [t \in Threads |-> {}]
    /\ tag_calls = [t \in Threads |-> << >>]
    /\ status_before = [t \in Threads |-> InitStatus]
    /\ scansStarted = 1
    /\ callsRejected = 0
    /\ statusScan = 1
    /\ last = NoScan
    /\ snap = NoSnap
    /\ InitExt

\* step 4a for an image in which process_image finds no tag above the threshold
TagNothing(t) ==
    /\ pc[t] = "tag"
    /\ tags_list' = [tags_list EXCEPT ![t] = [kind |-> "ok", tags |-> {}]]
    /\ pc' = [pc EXCEPT ![t] = AfterTag(tags_list'[t])]
    /\ tagged' = [tagged EXCEPT ![t] = @ \cup {files_to_scan[t][idx[t]]}]
    /\ tag_calls' = [tag_calls EXCEPT ![t] = Append(@, files_to_scan[t][idx[t]])]
    /\ save_result' = [save_result EXCEPT ![t] = "none"]
    /\ UNCHANGED <<status, db, folder_path, force_rescan, already_indexed_paths,
                   files_to_scan, n_all_files, total_files, idx, status_before, counters,
                   statusScan, last, snap>>

NextPercent ==
    /\ \E t \in Threads :
         \/ SetTotalsStep(t)
         \/ ReadTotal(t)
         \/ TagNothing(t)
         \/ ProgressStep(t)
         \/ FinallyStep(t)
    /\ UNCHANGED ext

SpecPercent == InitPercent /\ [][NextPercent]_vars

\* C12: no torn update: whenever get_status can take the lock, the record it
\* copies has progress_percent = floor(100 * files_processed / total_files)
\* when total_files > 0, and progress_percent = 0 when total_files = 0
C12_PercentIsFloor ==
    LET st == StatusCopy(status)
    IN  /\ st.total_files > 0 =>
             st.progress_percent = (100 * st.files_processed) \div st.total_files
        /\ st.total_files = 0 => st.progress_percent = 0

(***************************************************************************)
(* C13: the status lock, acquisition by acquisition.  Each with block of   *)
(* start_scan and of get_status is split into taking the lock and running  *)
(* the block, which releases it.                                           *)
(***************************************************************************)
\* whether thread t stands before a with self.lock block of start_scan
AtWithBlock(t) ==
    \/ pc[t] = "idle" /\ scansStarted + callsRejected < MaxCalls
    \/ pc[t] = "check_dir" /\ ~IsDir(folder_path[t])
    \/ pc[t] \in {"set_totals", "progress", "finally", "finally_error"}

\* fault variant: the block that sets the totals keeps the lock
LockKeptAfterTotals(t, at) == IF at = "set_totals" THEN t ELSE "none"

\* the holder of the lock when thread t leaves the with block it entered at pc value at
LockAfterBlock(t, at) == "none"

\* with self.lock: the lock is free and thread t takes it
AcquireLock(t) ==
    /\ lock = "none"
    /\ AtWithBlock(t)
    /\ lock' = t
    /\ UNCHANGED <<scanVars, held, rescanVars, storeVars, uiVars>>

\* the body of the with block thread t is in, and the release at its end
LockedBlock(t) ==
    /\ lock = t
    /\ \/ StartScanRejected(t)
       \/ \E folder \in FolderArgs, force \in BOOLEAN : StartScanAccepted(t, folder, force)
       \/ InvalidFolderReturn(t)
       \/ SetTotalsStep(t)
       \/ ProgressStep(t)
       \/ FinallyStep(t)
    /\ lock' = LockAfterBlock(t, pc[t])
    /\ UNCHANGED <<held, rescanVars, storeVars, uiVars>>

\* the steps of start_scan outside its with blocks
UnlockedStep(t) ==
    /\ \/ ValidFolder(t)
       \/ ListIndexed(t)
       \/ Enumerate(t)
       \/ RaiseUnexpected(t)
       \/ ReadTotal(t)
       \/ TagFile(t)
       \/ SaveOk(t)
       \/ SaveFails(t)
    /\ UNCHANGED ext

\* get_status called by another thread: it takes the lock when it is free
ReaderAcquire ==
    /\ lock = "none"
    /\ lock' = "reader"
    /\ UNCHANGED <<scanVars, held, rescanVars, storeVars, uiVars>>

\* get_status copies the status, releases the lock and returns; the caller
\* uses the copy at once and keeps nothing
ReaderReturn ==
    /\ lock = "reader"
    /\ lock' = "none"
    /\ UNCHANGED <<scanVars, held, rescanVars, storeVars, uiVars>>

NextLock ==
    \/ \E t \in Threads : AcquireLock(t)
    \/ \E t \in Threads : LockedBlock(t)
    \/ \E t \in Threads : UnlockedStep(t)
    \/ ReaderAcquire
    \/ ReaderReturn

SpecLock == Init /\ [][NextLock]_vars

\* the positions of start_scan that lie inside a with self.lock block
InsideWithBlock(t) ==
    \/ pc[t] \in {"idle", "set_totals", "progress", "finally", "finally_error"}
    \/ pc[t] = "check_dir" /\ ~IsDir(folder_path[t])

\* C13: the scan thread never holds the status lock while it lists the indexed
\* paths, enumerates the folder, tags or saves: it holds the lock only inside a
\* block that updates one group of status fields, and the next step it takes
\* there releases the lock, so a get_status call waits for at most that one
\* update and gets the lock while the scan still runs
C13_LockOnlyForFieldUpdates ==
    /\ [](\A t \in Threads : lock = t => InsideWithBlock(t))
    /\ [][\A t \in Threads :
            lock = t /\ <<pc[t], status, callsRejected>>' # <<pc[t], status, callsRejected>>
              => lock' = "none"]_vars

\* get_status holds the lock while a scan stands before the save of a file
C13_Witness ==
    /\ lock = "reader"
    /\ status.is_scanning
    /\ \E t \in Threads : pc[t] = "save"

(***************************************************************************)
(* C14: a caller that keeps the dict get_status gave it, and writes to it. *)
(* A dict is an object: the result of get_status is a reference, either to *)
(* a dict of its own ("copy", with the items it was made with) or to the   *)
(* engine's status dict ("live").  The scans of this specification are     *)
(* those in which the tagger finds no tag, so the store stays empty.       *)
(***************************************************************************)
\* fault variant: get_status returns the status dict itself
GetStatusResultLive(st) == [ref |-> "live", st |-> st]

\* return self.status.copy(): a new dict with the items of the status dict
GetStatusResult(st) == [ref |-> "copy", st |-> StatusCopy(st)]

\* the items the caller reads from the dict it holds
SeenHeld == IF held.ref = "live" THEN status ELSE held.st

\* the caller calls get_status and keeps the result
KeepStatus ==
    /\ ~held.taken
    /\ LET result == GetStatusResult(status)
       IN  held' = [taken |-> TRUE, ref |-> result.ref, st |-> result.st,
                    written |-> FALSE]
    /\ UNCHANGED <<scanVars, lock, rescanVars, storeVars, uiVars>>

\* the caller assigns to an item of the dict it holds: d["files_processed"] = -1
WriteSnapshot ==
    /\ held.taken
    /\ ~held.written
    /\ IF held.ref = "live"
       THEN /\ status' = [status EXCEPT !.files_processed = -1]
            /\ held' = [held EXCEPT !.written = TRUE]
       ELSE /\ held' = [held EXCEPT !.st.files_processed = -1, !.written = TRUE]
            /\ UNCHANGED status
    /\ UNCHANGED <<db, pc, locals, counters, statusScan, last, snap, lock, rescanVars, storeVars, uiVars>>

NextCopy ==
    \/ \E t \in Threads : StartScanRejected(t) /\ UNCHANGED ext
    \/ \E t \in Threads, folder \in FolderArgs, force \in BOOLEAN :
         StartScanAccepted(t, folder, force) /\ UNCHANGED ext
    \/ \E t \in Threads :
         /\ \/ InvalidFolderReturn(t)
            \/ ValidFolder(t)
            \/ ListIndexed(t)
            \/ Enumerate(t)
            \/ RaiseUnexpected(t)
            \/ SetTotalsStep(t)
            \/ ReadTotal(t)
            \/ TagNothing(t)
            \/ ProgressStep(t)
            \/ FinallyStep(t)
         /\ UNCHANGED ext
    \/ KeepStatus
    \/ WriteSnapshot

SpecCopy == Init /\ [][NextCopy]_vars

\* C14: get_status returns an independent copy: whatever a scan later writes
\* to the status, the items of a dict returned earlier stay as they were, and
\* an assignment to an item of a returned dict leaves the live status as it was
C14_SnapshotIndependent ==
    /\ [][held.taken /\ held' = held => SeenHeld' = SeenHeld]_vars
    /\ [][held.taken /\ held'.written # held.written => status' = status]_vars

\* a dict taken while a scan was running has been written to by its holder,
\* and the scan has since set the totals and counted a file
C14_Witness ==
    /\ held.taken
    /\ held.written
    /\ held.st.is_scanning
    /\ held.st.total_files = 0
    /\ status.total_files > 0
    /\ status.files_processed > 0

(***************************************************************************)
(* C15: the counters after enumeration.                                    *)
(***************************************************************************)
\* C15: once the totals are set, total_files is the number of supported files
\* discovered in the folder, and files_processed is the number of discovered
\* files that are already indexed and skipped (the total minus the files to
\* process) in a non-forced scan, and 0 in a forced scan
C15_TotalsAfterEnumeration ==
    \A t \in Threads :
      pc[t] = "read_total" =>
        /\ status.total_files = Len(AllFilesInFolder(folder_path[t]))
        /\ status.files_processed =
             IF force_rescan[t] THEN 0
             ELSE status.total_files - Len(files_to_scan[t])

(***************************************************************************)
(* C16, C17: rescan-all.  A request checks the status and starts a thread  *)
(* that runs scan_all; the threads of the model are those threads.         *)
(***************************************************************************)
\* LOADED_CONFIG['allowed_paths'], as loaded from the configuration file
allowed_paths == <<"A", "nodir", "B/.">>

\* start_rescan_all_folders_thread: a scan is running, the request is refused
RescanRefused ==
    /\ StatusCopy(status).is_scanning
    /\ reply' = "in_progress"
    /\ UNCHANGED <<scanVars, lock, held, wpos, wlog, storeVars, uiVars>>

\* start_rescan_all_folders_thread: no scan is running, a thread is started
RescanStarted ==
    /\ ~StatusCopy(status).is_scanning
    /\ Len(allowed_paths) > 0
    /\ \E t \in Threads :
         /\ wpos[t] = 0
         /\ pc[t] = "idle"
         /\ wpos' = [wpos EXCEPT ![t] = 1]
         /\ wlog' = [wlog EXCEPT ![t] = << >>]
    /\ reply' = "started"
    /\ UNCHANGED <<scanVars, lock, held, storeVars, uiVars>>

\* fault variant: the loop stays at the entry it is at
SameEntryAgain(k) == k

\* for folder in folders_to_scan: the entry after entry k
NextEntry(k) == k + 1

\* whether the scan_all loop of thread t stands at an entry of the list
AtEntry(t) == pc[t] = "idle" /\ wpos[t] \in 1..Len(allowed_paths)

\* scan_all: the entry is no directory and is passed over
WorkerSkips(t) ==
    /\ AtEntry(t)
    /\ ~IsDir(allowed_paths[wpos[t]])
    /\ wpos' = [wpos EXCEPT ![t] = NextEntry(@)]
    /\ UNCHANGED <<scanVars, lock, held, wlog, reply, storeVars, uiVars>>

\* scan_all: start_scan(folder, None, force_rescan=False) enters Scanning
WorkerScans(t) ==
    /\ AtEntry(t)
    /\ IsDir(allowed_paths[wpos[t]])
    /\ StartScanAccepted(t, allowed_paths[wpos[t]], FALSE)
    /\ wpos' = [wpos EXCEPT ![t] = NextEntry(@)]
    /\ wlog' = [wlog EXCEPT ![t] = Append(@, wpos[t])]
    /\ UNCHANGED <<lock, held, reply, storeVars, uiVars>>

\* scan_all: start_scan finds a scan running and returns at once
WorkerTurnedAway(t) ==
    /\ AtEntry(t)
    /\ IsDir(allowed_paths[wpos[t]])
    /\ StartScanRejected(t)
    /\ wpos' = [wpos EXCEPT ![t] = NextEntry(@)]
    /\ UNCHANGED <<lock, held, wlog, reply, storeVars, uiVars>>

\* scan_all: the loop is over and the thread ends
WorkerEnds(t) ==
    /\ pc[t] = "idle"
    /\ wpos[t] = Len(allowed_paths) + 1
    /\ wpos' = [wpos EXCEPT ![t] = 0]
    /\ UNCHANGED <<scanVars, lock, held, wlog, reply, storeVars, uiVars>>

\* the steps of a start_scan call made by scan_all, whose folder is a directory
WorkerScanStep(t) ==
    /\ \/ ValidFolder(t)
       \/ ListIndexed(t)
       \/ Enumerate(t)
       \/ RaiseUnexpected(t)
       \/ SetTotalsStep(t)
       \/ ReadTotal(t)
       \/ TagFile(t)
       \/ SaveOk(t)
       \/ SaveFails(t)
       \/ ProgressStep(t)
       \/ FinallyStep(t)
    /\ UNCHANGED ext

NextRescan ==
    \/ RescanRefused
    \/ RescanStarted
    \/ \E t \in Threads : WorkerSkips(t)
    \/ \E t \in Threads : WorkerScans(t)
    \/ \E t \in Threads : WorkerTurnedAway(t)
    \/ \E t \in Threads : WorkerEnds(t)
    \/ \E t \in Threads : WorkerScanStep(t)

SpecRescan == Init /\ [][NextRescan]_vars

\* whether a sequence of list entries goes up the list
InListOrder(log) == \A i, j \in 1..Len(log) : i < j => log[i] < log[j]

\* C16: in a rescan-all the folders are scanned one at a time in allow-list
\* order: no two scans run at once, the entries a scan_all loop has had
\* scanned are directories of the list taken in the order of the list, and a
\* scan begins only when the status is Idle and every earlier start_scan call
\* has returned; this for any number of requests and scan_all threads
C16_OneFolderAtATimeInOrder ==
    /\ [](/\ Cardinality(Active) <= 1
          /\ \A t \in Threads :
               /\ InListOrder(wlog[t])
               /\ \A i \in 1..Len(wlog[t]) : IsDir(allowed_paths[wlog[t][i]]))
    /\ [][scansStarted' > scansStarted => ~status.is_scanning /\ AllIdle]_vars

\* a scan_all loop has had the first directory of the list scanned to the
\* end and its scan of the next directory is under way
C16_Witness ==
    \E t \in Threads :
      /\ wlog[t] = <<1, 3>>
      /\ pc[t] = "tag"
      /\ last.folder = allowed_paths[1]
      /\ status.folder = allowed_paths[3]

\* C17: at most one background scan worker exists at any time: no rescan-all
\* request starts a scan_all thread while another one is still running
C17_AtMostOneWorker ==
    Cardinality({t \in Threads : wpos[t] > 0}) <= 1

(***************************************************************************)
(* C18 - C20: the store used directly.  save_tags_to_db runs statement by  *)
(* statement on a connection of its own; the store lets one connection     *)
(* write at a time, a second one waits for the lock or fails as busy.      *)
(***************************************************************************)
MaxSaves == 2

\* fault variant: the statements run outside a transaction, each on its own
NoTransaction == FALSE

\* conn.execute("BEGIN TRANSACTION;"): the statements up to the commit form
\* one transaction
InTransaction == TRUE

\* the store a statement of connection c reads and writes
StatementBase(c) == IF InTransaction THEN txn[c].work ELSE db

\* whether connection c may run its next statement: inside a transaction
\* it holds the write lock from its first write on
MayWrite(c) == IF InTransaction THEN writer = c ELSE writer = "none"

\* a statement of connection c has turned the store it works on into new
Written(c, new, at) ==
    /\ txn' = [txn EXCEPT ![c].work = new, ![c].pc = at]
    /\ db' = IF InTransaction THEN db ELSE new
    /\ writer' = IF InTransaction THEN c ELSE "none"

\* what a call on the store leaves alone
nonStore == <<engineVars, lock, held, rescanVars, uiVars>>

\* save_tags_to_db is called: connect and BEGIN
SaveBegin(c, file_path, tags) ==
    /\ txn[c].pc = "idle"
    /\ saves < MaxSaves
    /\ saves' = saves + 1
    /\ txn' = [txn EXCEPT ![c] = [NoTxn EXCEPT !.pc = "upsert", !.file_path = file_path,
                                               !.tags = tags]]
    /\ UNCHANGED <<db, writer, lastSaved, nonStore>>

\* INSERT INTO images ... ON CONFLICT DO UPDATE: the first write takes the lock
SaveUpsert(c) ==
    /\ txn[c].pc = "upsert"
    /\ writer = "none"
    /\ txn' = [txn EXCEPT ![c].work = UpsertImage(db, NormPath(txn[c].file_path)),
                          ![c].before = db,
                          ![c].pc = "select"]
    /\ db' = IF InTransaction THEN db ELSE UpsertImage(db, NormPath(txn[c].file_path))
    /\ writer' = IF InTransaction THEN c ELSE "none"
    /\ UNCHANGED <<lastSaved, saves, nonStore>>

\* SELECT image_id FROM images WHERE file_path = ?
SaveSelectId(c) ==
    /\ txn[c].pc = "select"
    /\ txn' = [txn EXCEPT ![c].image_id =
                            ImageIdOf(StatementBase(c), NormPath(txn[c].file_path)),
                          ![c].pc = "delete"]
    /\ UNCHANGED <<db, writer, lastSaved, saves, nonStore>>

\* DELETE FROM tags WHERE image_id = ?
SaveDelete(c) ==
    /\ txn[c].pc = "delete"
    /\ MayWrite(c)
    /\ Written(c, DeleteTags(StatementBase(c), txn[c].image_id), "insert")
    /\ UNCHANGED <<lastSaved, saves, nonStore>>

\* executemany INSERT INTO tags, when the tag list is not empty
SaveInsert(c) ==
    /\ txn[c].pc = "insert"
    /\ MayWrite(c)
    /\ Written(c, IF txn[c].tags # {}
                  THEN InsertTags(StatementBase(c), txn[c].image_id, txn[c].tags)
                  ELSE StatementBase(c),
               "commit")
    /\ UNCHANGED <<lastSaved, saves, nonStore>>

\* conn.commit(), return True, close
SaveCommit(c) ==
    /\ txn[c].pc = "commit"
    /\ MayWrite(c)
    /\ db' = StatementBase(c)
    /\ writer' = "none"
    /\ lastSaved' = [lastSaved EXCEPT ![NormPath(txn[c].file_path)] = <<txn[c].tags>>]
    /\ txn' = [o \in Conns |->
                 IF o = c
                 THEN [txn[c] EXCEPT !.pc = "idle", !.result = "ok", !.image_id = 0,
                                     !.work = EmptyDb, !.before = EmptyDb]
                 ELSE IF txn[o].pc # "idle" /\ NormPath(txn[o].file_path) = NormPath(txn[c].file_path)
                      THEN [txn[o] EXCEPT !.raced = TRUE]
                      ELSE txn[o]]
    /\ UNCHANGED <<saves, nonStore>>

\* a statement or the commit fails: a sqlite3.Error (the busy timeout among
\* them) is caught, rolled back and answered with False; any other exception
\* leaves the call, and closing the connection drops the transaction
SaveAborts(c) ==
    /\ txn[c].pc \in {"upsert", "select", "delete", "insert", "commit"}
    /\ \E how \in {"failed", "raised"} :
         txn' = [txn EXCEPT ![c].pc = "idle", ![c].result = how, ![c].image_id = 0,
                            ![c].failed_at = txn[c].pc,
                            ![c].work = EmptyDb, ![c].before = EmptyDb]
    /\ writer' = IF writer = c THEN "none" ELSE writer
    /\ UNCHANGED <<db, lastSaved, saves, nonStore>>

\* toggle_favorite_status on an image of the store: UPDATE, SELECT, commit
ToggleFavorite(image_id) ==
    /\ writer = "none"
    /\ \E row \in db.images : row.image_id = image_id
    /\ db' = [db EXCEPT !.images =
                {[row EXCEPT !.is_favorite = IF row.image_id = image_id
                                             THEN ~row.is_favorite ELSE row.is_favorite] :
                   row \in db.images}]
    /\ UNCHANGED <<txn, writer, lastSaved, saves, nonStore>>

NextStore ==
    \/ \E c \in Conns, file_path \in SavePaths, tags \in TagLists : SaveBegin(c, file_path, tags)
    \/ \E c \in Conns : SaveUpsert(c)
    \/ \E c \in Conns : SaveSelectId(c)
    \/ \E c \in Conns : SaveDelete(c)
    \/ \E c \in Conns : SaveInsert(c)
    \/ \E c \in Conns : SaveCommit(c)
    \/ \E c \in Conns : SaveAborts(c)
    \/ \E image_id \in 1..MaxSaves : ToggleFavorite(image_id)

SpecStore == Init /\ [][NextStore]_vars

\* C18: save_tags_to_db is all-or-nothing: while a call is between its first
\* write and its commit the store the other callers read is the store as the
\* call found it, and a call that fails at any step (upsert, select, delete,
\* insert, commit) ends with the image records and the tag assignments exactly
\* as they were before it; the old tags are never left deleted without the new
C18_SaveAllOrNothing ==
    /\ [](\A c \in Conns :
            txn[c].pc \in {"select", "delete", "insert", "commit"} => db = txn[c].before)
    /\ [][\A c \in Conns :
            txn[c].pc # "idle" /\ txn'[c].pc = "idle" /\ txn'[c].result # "ok"
              => /\ db' = db
                 /\ txn[c].pc # "upsert" => db' = txn[c].before]_vars

\* a call for a path that has tags failed at its commit, after its DELETE and
\* INSERT had run with another tag list, and the old tags are still stored
C18_Witness ==
    \E c \in Conns :
      /\ txn[c].pc = "idle"
      /\ txn[c].result = "failed"
      /\ txn[c].failed_at = "commit"
      /\ txn[c].tags # {}
      /\ TagsOf(db, NormPath(txn[c].file_path)) # {}
      /\ TagsOf(db, NormPath(txn[c].file_path)) # txn[c].tags

\* C19: when save_tags_to_db calls for one path run side by side and succeed,
\* the tags stored for the path are exactly the tag list of the call that
\* committed last, never a mix or union, and the path has exactly one image
\* record
C19_LastCommitWins ==
    \A path \in DOMAIN lastSaved :
      lastSaved[path] # <<>> =>
        /\ TagsOf(db, path) = lastSaved[path][1]
        /\ Cardinality({row \in db.images : row.file_path = path}) = 1

\* two calls for one path with different tag lists have both returned True;
\* one of them was under way when the other committed, committed after it,
\* and its tag list is the one stored
C19_Witness ==
    \E c \in Conns, o \in Conns :
      /\ c # o
      /\ txn[c].pc = "idle" /\ txn[o].pc = "idle"
      /\ txn[c].result = "ok" /\ txn[o].result = "ok"
      /\ NormPath(txn[c].file_path) = NormPath(txn[o].file_path)
      /\ txn[c].tags # {} /\ txn[o].tags # {} /\ txn[c].tags # txn[o].tags
      /\ txn[o].raced
      /\ TagsOf(db, NormPath(txn[o].file_path)) = txn[o].tags

\* C20: get_all_indexed_images returns every image in the store: the paths of
\* its records are the paths get_all_indexed_file_paths returns, and each
\* record carries the current tags and favorite flag of its image
C20_ListsEveryImage ==
    LET records == GetAllIndexedImages(db)
    IN  /\ {r.file_path : r \in records} = GetAllIndexedFilePaths(db, TRUE)
        /\ \A r \in records :
             /\ r.tags = TagsOf(db, r.file_path)
             /\ \E img \in db.images :
                  /\ img.image_id = r.image_id
                  /\ img.file_path = r.file_path
                  /\ img.is_favorite = r.is_favorite

(***************************************************************************)
(* C21, C22: toggle_favorite_status on a store filled by save_tags_to_db.  *)
(* Calls do not overlap here, so each is one step.                         *)
(***************************************************************************)
\* the ids a caller passes: those the store can hand out and one it never does
ToggleIds == 1 .. (Cardinality(SavePaths) + 1)

\* what the calls on the store leave alone
nonToggle == <<engineVars, lock, held, rescanVars, storeVars, dict, ask>>

\* save_tags_to_db returns True
SaveReturnsTrue(file_path, tags) ==
    /\ db' = SaveTagsToDb(db, file_path, tags)
    /\ UNCHANGED <<toggled, nonToggle>>

\* toggle_favorite_status: UPDATE, SELECT, commit, return
ToggleFavoriteStatus(image_id) ==
    /\ db' = ToggleFlag(db, image_id)
    /\ toggled' = [op |-> "toggle", image_id |-> image_id,
                   known |-> \E row \in db.images : row.image_id = image_id,
                   outcome |-> "returned",
                   returned |-> NewStatus(ToggleFlag(db, image_id), image_id),
                   before |-> db, after |-> ToggleFlag(db, image_id)]
    /\ UNCHANGED nonToggle

\* toggle_favorite_status when a statement or the commit fails with a
\* sqlite3.Error: rollback, return False
ToggleFavoriteFails(image_id) ==
    /\ toggled' = [op |-> "toggle", image_id |-> image_id,
                   known |-> \E row \in db.images : row.image_id = image_id,
                   outcome |-> "sqlite_error",
                   returned |-> FALSE,
                   before |-> db, after |-> db]
    /\ UNCHANGED <<db, nonToggle>>

NextFavorite ==
    \/ \E file_path \in SavePaths, tags \in TagLists : SaveReturnsTrue(file_path, tags)
    \/ \E image_id \in ToggleIds : ToggleFavoriteStatus(image_id)
    \/ \E image_id \in ToggleIds : ToggleFavoriteFails(image_id)

SpecFavorite == Init /\ [][NextFavorite]_vars

FlagOf(d, image_id) == (CHOOSE row \in d.images : row.image_id = image_id).is_favorite

\* the toggle of a known id flipped that image's flag once, returned the new
\* flag and changed nothing else in the store
FlippedOnlyThat ==
    toggled.op = "toggle" /\ toggled.known /\ toggled.outcome = "returned" =>
      /\ toggled.after.tags = toggled.before.tags
      /\ toggled.after.seq = toggled.before.seq
      /\ {[row EXCEPT !.is_favorite = FALSE] : row \in toggled.after.images}
           = {[row EXCEPT !.is_favorite = FALSE] : row \in toggled.before.images}
      /\ \A row \in toggled.before.images :
           FlagOf(toggled.after, row.image_id) =
             (IF row.image_id = toggled.image_id THEN ~row.is_favorite ELSE row.is_favorite)
      /\ toggled.returned = FlagOf(toggled.after, toggled.image_id)

\* C21: toggle_favorite_status on a known image id flips that image's flag
\* exactly once, returns the resulting state, changes no other flag and no
\* tag, and a get_all_indexed_images call made afterwards has a record of
\* that image with the new flag
C21_ToggleKnownId ==
    /\ FlippedOnlyThat
    /\ toggled.op = "toggle" /\ toggled.known /\ toggled.outcome = "returned" =>
         \E r \in GetAllIndexedImages(db) :
           r.image_id = toggled.image_id /\ r.is_favorite = toggled.returned

\* C22: toggle_favorite_status on an id that is not in the store changes no
\* favorite flag and answers with something other than False, which is what
\* a toggle that cleared the flag of a known image returns
C22_ToggleUnknownId ==
    toggled.op = "toggle" /\ ~toggled.known /\ toggled.outcome = "returned" =>
      /\ toggled.after = toggled.before
      /\ toggled.returned # FALSE

(***************************************************************************)
(* C23 - C27: the dictionary (dictionary_manager.DictionaryManager).       *)
(* A string is the sequence of its characters.  A Python dict is the       *)
(* sequence of its <<key, value>> pairs in insertion order.                *)
(***************************************************************************)
\* rows of the small dictionary sheets
MaxRows == 2

\* rows of the long dictionary sheet
BigRows == 204

\* the entries fuzzy_lookup_suggestions returns at most
SuggestionCap == 200

\* Python's None and pandas' NaN, which are no strings
None == <<"None">>
NaN == <<"NaN">>

\* str.strip()
StrStrip(s) ==
    LET kept == {k \in 1..Len(s) : s[k] # " "}
    IN  IF kept = {} THEN << >>
        ELSE SubSeq(s, CHOOSE k \in kept : \A j \in kept : k <= j,
                       CHOOSE k \in kept : \A j \in kept : k >= j)

\* str.lower()
StrLower(s) ==
    [k \in 1..Len(s) |-> CASE s[k] = "A" -> "a"
                          [] s[k] = "B" -> "b"
                          [] s[k] = "G" -> "g"
                          [] s[k] = "H" -> "h"
                          [] s[k] = "N" -> "n"
                          [] s[k] = "P" -> "p"
                          [] s[k] = "T" -> "t"
                          [] s[k] = "X" -> "x"
                          [] OTHER      -> s[k]]

\* part in whole
IsSubstring(part, whole) ==
    \E k \in 1..(Len(whole) - Len(part) + 1) : SubSeq(whole, k, k + Len(part) - 1) = part

\* fault variant: an entry that is already there is kept
DictSetKeepsFirst(d, key, value) ==
    IF \E k \in 1..Len(d) : d[k][1] = key THEN d ELSE Append(d, <<key, value>>)

\* d[key] = value
DictSet(d, key, value) ==
    IF \E k \in 1..Len(d) : d[k][1] = key
    THEN [k \in 1..Len(d) |-> IF d[k][1] = key THEN <<key, value>> ELSE d[k]]
    ELSE Append(d, <<key, value>>)

\* key in d
DictHas(d, key) == \E k \in 1..Len(d) : d[k][1] = key

\* d.get(key)
DictGet(d, key) ==
    IF DictHas(d, key) THEN d[CHOOSE k \in 1..Len(d) : d[k][1] = key][2] ELSE None

\* list(d.keys())
DictKeys(d) == [k \in 1..Len(d) |-> d[k][1]]

\* the cells of column D (right_tag_cn) and column C (tag) of the small sheets
TermCells == {NaN, <<"x">>, <<" ", "x">>, <<"x", "y">>}
TagCells == {<<"a">>, <<"A", " ">>, <<" ">>, <<"b">>}

SheetRows == {[right_tag_cn |-> cn, tag |-> en] : cn \in TermCells, en \in TagCells}

RECURSIVE SheetsOfLength(_)
SheetsOfLength(n) ==
    IF n = 0 THEN {<< >>}
    ELSE {Append(sheet, row) : sheet \in SheetsOfLength(n - 1), row \in SheetRows}

SmallSheets == UNION {SheetsOfLength(n) : n \in 0..MaxRows}

\* the long sheet: row k has the term "x" followed by the three digits of k,
\* and the tag "a", but for rows 1, 101, 201, ..., which have the tag "b"
Digit == <<"0", "1", "2", "3", "4", "5", "6", "7", "8", "9">>
BigTerm(k) ==
    <<"x", Digit[((k \div 100) % 10) + 1], Digit[((k \div 10) % 10) + 1], Digit[(k % 10) + 1]>>
BigSheet ==
    [k \in 1..BigRows |->
       [right_tag_cn |-> BigTerm(k), tag |-> IF k % 100 = 1 THEN <<"b">> ELSE <<"a">>]]

\* dropna, then strip and lower-case column tag, strip column right_tag_cn
CleanRows(sheet) ==
    LET kept == SelectSeq(sheet, LAMBDA row : row.tag # NaN /\ row.right_tag_cn # NaN)
    IN  [k \in 1..Len(kept) |->
           [tag |-> StrLower(StrStrip(kept[k].tag)),
            right_tag_cn |-> StrStrip(kept[k].right_tag_cn)]]

\* fault variant: the exception comes out of the loop, after its first pass
LoadRaisesInLoop ==
    /\ dict.pc = "unloaded"
    /\ dict' = [dict EXCEPT !.pc = "ready", !.source = "unreadable",
                             !.cn_to_en_tag = << <<<<"x">>, <<"a">>>> >>,
                             !.en_to_cn_tag = << <<<<"a">>, <<"x">>>> >>]
    /\ UNCHANGED <<ask, scanVars, lock, held, rescanVars, storeVars, toggled>>

\* what the dictionary calls leave alone
nonDict == <<scanVars, lock, held, rescanVars, storeVars, toggled>>

\* _load_dictionary: the file does not exist
LoadAbsent ==
    /\ dict.pc = "unloaded"
    /\ dict' = [dict EXCEPT !.pc = "ready", !.source = "absent"]
    /\ UNCHANGED <<ask, nonDict>>

\* _load_dictionary: read_excel or the clean-up raises, the except branch
\* prints and returns
LoadRaises ==
    /\ dict.pc = "unloaded"
    /\ dict' = [dict EXCEPT !.pc = "ready", !.source = "unreadable"]
    /\ UNCHANGED <<ask, nonDict>>

\* _load_dictionary: one of the sheets is read and cleaned
ReadSheet(sheets) ==
    /\ dict.pc = "unloaded"
    /\ \E sheet \in sheets :
         dict' = [dict EXCEPT !.pc = "loop", !.source = "sheet", !.rows = CleanRows(sheet),
                                  !.i = 1]
    /\ UNCHANGED <<ask, nonDict>>

\* one pass of the loop over zip(right_tag_cn, tag)
LoadRow ==
    /\ dict.pc = "loop"
    /\ dict.i <= Len(dict.rows)
    /\ LET cn_tag == dict.rows[dict.i].right_tag_cn
           en_tag == dict.rows[dict.i].tag
       IN  dict' = [dict EXCEPT !.cn_to_en_tag = DictSet(@, cn_tag, en_tag),
                                !.en_to_cn_tag = DictSet(@, en_tag, cn_tag),
                                !.i = @ + 1]
    /\ UNCHANGED <<ask, nonDict>>

\* after the loop: _all_cn_tags = list(self._cn_to_en_tag.keys())
FinishLoad ==
    /\ dict.pc = "loop"
    /\ dict.i > Len(dict.rows)
    /\ dict' = [dict EXCEPT !.pc = "ready", !.all_cn_tags = DictKeys(dict.cn_to_en_tag)]
    /\ UNCHANGED <<ask, nonDict>>

\* `if en_tag:` - neither None nor the empty string
Truthy(value) == value # None /\ value # << >>

\* seq[:n]
FirstN(seq, n) == SubSeq(seq, 1, IF Len(seq) < n THEN Len(seq) ELSE n)

\* fault variant: every term is a suggestion
RawSuggestionsAll(d, partial) == d.all_cn_tags

\* the first loop of fuzzy_lookup_suggestions: the terms that contain partial
RawSuggestions(d, partial) ==
    SelectSeq(d.all_cn_tags, LAMBDA cn_tag : IsSubstring(partial, cn_tag))

\* fault variant: the list is cut to the cap before it is filtered
FilterAfterCap(d, raw, allowed_en_tags) ==
    SelectSeq(FirstN(raw, SuggestionCap),
              LAMBDA cn_tag : LET en_tag == DictGet(d.cn_to_en_tag, cn_tag)
                              IN  Truthy(en_tag) /\ en_tag \in allowed_en_tags)

\* the second loop: the suggestions whose tag is in allowed_en_tags
FilterSuggestions(d, raw, allowed_en_tags) ==
    SelectSeq(raw, LAMBDA cn_tag : LET en_tag == DictGet(d.cn_to_en_tag, cn_tag)
                                   IN  Truthy(en_tag) /\ en_tag \in allowed_en_tags)

\* the allowed_en_tags argument: None, or a set of tags
NoFilter == [given |-> FALSE, tags |-> {}]
FilterOf(tags) == [given |-> TRUE, tags |-> tags]

FuzzyLookupSuggestions(d, partial_cn_term, allowed) ==
    LET partial == StrStrip(partial_cn_term)
        raw     == RawSuggestions(d, partial)
    IN  IF partial = << >> THEN << >>
        ELSE IF ~allowed.given THEN FirstN(raw, SuggestionCap)
        ELSE FirstN(FilterSuggestions(d, raw, allowed.tags), SuggestionCap)

\* get_search_tags_from_cn_list: the set of tags (returned as a list)
GetSearchTagsFromCnList(d, cn_terms) ==
    {DictGet(d.cn_to_en_tag, cn_terms[k]) :
       k \in {j \in 1..Len(cn_terms) : Truthy(DictGet(d.cn_to_en_tag, cn_terms[j]))}}

\* fault variant: the term-to-tag map is asked
LookupInTermMap(d, en_tag) == DictGet(d.cn_to_en_tag, en_tag)

LookupEnToCn(d, en_tag) == DictGet(d.en_to_cn_tag, en_tag)

IsCnTag(d, cn_tag) == DictHas(d.cn_to_en_tag, cn_tag)

\* the arguments of the calls
Partials ==
    {<< >>, <<" ">>, <<"x">>, <<"x", " ">>, <<" ", "y">>, <<"x", "y">>, <<"z">>, <<"x", "0">>}
Filters == {NoFilter} \cup {FilterOf(tags) : tags \in SUBSET {<<"a">>, <<"b">>}}
TermLists ==
    {<< >>, << <<"x">> >>, << <<"y">> >>, << <<"x", "y">> >>, << <<"z">> >>,
     << <<"x">>, <<"y">> >>, << <<"x">>, <<"x", "y">> >>, << BigTerm(1), BigTerm(2) >>}
TagArgs == {<<"a">>, <<"b">>, << >>, <<"A">>, <<"c">>}
TermArgs == {<<"x">>, <<"y">>, <<"x", "y">>, <<"z">>, <<" ", "x">>, BigTerm(1)}

AskFuzzy(partial_cn_term, allowed) ==
    /\ dict.pc = "ready"
    /\ ask.op = "none"
    /\ ask' = [op |-> "fuzzy_lookup_suggestions", arg |-> partial_cn_term,
               allowed |-> allowed,
               result |-> FuzzyLookupSuggestions(dict, partial_cn_term, allowed)]
    /\ UNCHANGED <<dict, nonDict>>

AskSearchTags(cn_terms) ==
    /\ dict.pc = "ready"
    /\ ask.op = "none"
    /\ ask' = [op |-> "get_search_tags_from_cn_list", arg |-> cn_terms,
               result |-> GetSearchTagsFromCnList(dict, cn_terms)]
    /\ UNCHANGED <<dict, nonDict>>

AskLookup(en_tag) ==
    /\ dict.pc = "ready"
    /\ ask.op = "none"
    /\ ask' = [op |-> "lookup_en_to_cn", arg |-> en_tag,
               result |-> LookupEnToCn(dict, en_tag)]
    /\ UNCHANGED <<dict, nonDict>>

AskIsCnTag(cn_tag) ==
    /\ dict.pc = "ready"
    /\ ask.op = "none"
    /\ ask' = [op |-> "is_cn_tag", arg |-> cn_tag, result |-> IsCnTag(dict, cn_tag)]
    /\ UNCHANGED <<dict, nonDict>>

\* the caller has its answer
CallReturns ==
    /\ ask.op # "none"
    /\ ask' = NoAsk
    /\ UNCHANGED <<dict, nonDict>>

NextDict ==
    \/ LoadAbsent
    \/ LoadRaises
    \/ ReadSheet(SmallSheets \cup {BigSheet})
    \/ LoadRow
    \/ FinishLoad
    \/ \E partial_cn_term \in Partials, allowed \in Filters : AskFuzzy(partial_cn_term, allowed)
    \/ \E cn_terms \in TermLists : AskSearchTags(cn_terms)
    \/ \E en_tag \in TagArgs : AskLookup(en_tag)
    \/ \E cn_tag \in TermArgs : AskIsCnTag(cn_tag)
    \/ CallReturns

SpecDict == Init /\ [][NextDict]_vars

\* the loaded entries: the rows that were read, after the clean-up
Entries == {dict.rows[k] : k \in 1..Len(dict.rows)}

\* row k is the last row with its term / with its tag
LastWithTerm(k) ==
    \A j \in (k + 1)..Len(dict.rows) : dict.rows[j].right_tag_cn # dict.rows[k].right_tag_cn
LastWithTag(k) ==
    \A j \in (k + 1)..Len(dict.rows) : dict.rows[j].tag # dict.rows[k].tag

\* C23 as stated: for every loaded entry (term, tag), lookup_en_to_cn(tag) is
\* term, get_search_tags_from_cn_list([term]) is {tag} and is_cn_tag(term) is
\* true, also when terms share a tag or a term has several tags
C23_RoundTripEveryEntry ==
    dict.pc = "ready" =>
      \A entry \in Entries :
        /\ ask.op = "lookup_en_to_cn" /\ ask.arg = entry.tag
             => ask.result = entry.right_tag_cn
        /\ ask.op = "get_search_tags_from_cn_list" /\ ask.arg = <<entry.right_tag_cn>>
             => ask.result = {entry.tag}
        /\ ask.op = "is_cn_tag" /\ ask.arg = entry.right_tag_cn
             => ask.result = TRUE

\* C23 amended: the round trip holds for the last-loaded row of a key:
\* lookup_en_to_cn(tag) is the term of the last row with that tag,
\* get_search_tags_from_cn_list([term]) is {tag} for the tag of the last row
\* with that term (and empty when that tag is the empty string), and
\* is_cn_tag(term) is true for every loaded entry
C23_RoundTripLastEntry ==
    dict.pc = "ready" =>
      \A k \in 1..Len(dict.rows) :
        LET entry == dict.rows[k]
        IN  /\ ask.op = "lookup_en_to_cn" /\ ask.arg = entry.tag /\ LastWithTag(k)
                 => ask.result = entry.right_tag_cn
            /\ ask.op = "get_search_tags_from_cn_list" /\ ask.arg = <<entry.right_tag_cn>>
               /\ LastWithTerm(k)
                 => ask.result = (IF entry.tag = << >> THEN {} ELSE {entry.tag})
            /\ ask.op = "is_cn_tag" /\ ask.arg = entry.right_tag_cn
                 => ask.result = TRUE

\* two terms were loaded for one tag and the tag was looked up: the answer is
\* the term of the later row
C23_Witness ==
    /\ dict.pc = "ready"
    /\ ask.op = "lookup_en_to_cn"
    /\ \E j \in 1..Len(dict.rows), k \in 1..Len(dict.rows) :
         /\ j < k
         /\ dict.rows[j].tag = ask.arg /\ dict.rows[k].tag = ask.arg
         /\ dict.rows[j].right_tag_cn # dict.rows[k].right_tag_cn
         /\ LastWithTag(k)
         /\ ask.result = dict.rows[k].right_tag_cn

\* C24: after the load, each map has one entry per key, and the entry of a
\* key is the counterpart of the last-loaded row with that key: the
\* term-to-tag map holds the tag of the last row with the term, the
\* tag-to-term map the term of the last row with the tag
C24_LastLoadedWins ==
    dict.pc = "ready" =>
      /\ \A j \in 1..Len(dict.cn_to_en_tag), k \in 1..Len(dict.cn_to_en_tag) :
           j # k => dict.cn_to_en_tag[j][1] # dict.cn_to_en_tag[k][1]
      /\ \A j \in 1..Len(dict.en_to_cn_tag), k \in 1..Len(dict.en_to_cn_tag) :
           j # k => dict.en_to_cn_tag[j][1] # dict.en_to_cn_tag[k][1]
      /\ {dict.cn_to_en_tag[k][1] : k \in 1..Len(dict.cn_to_en_tag)}
           = {entry.right_tag_cn : entry \in Entries}
      /\ {dict.en_to_cn_tag[k][1] : k \in 1..Len(dict.en_to_cn_tag)}
           = {entry.tag : entry \in Entries}
      /\ \A k \in 1..Len(dict.rows) :
           /\ LastWithTerm(k) =>
                \E e \in 1..Len(dict.cn_to_en_tag) :
                  dict.cn_to_en_tag[e] = <<dict.rows[k].right_tag_cn, dict.rows[k].tag>>
           /\ LastWithTag(k) =>
                \E e \in 1..Len(dict.en_to_cn_tag) :
                  dict.en_to_cn_tag[e] = <<dict.rows[k].tag, dict.rows[k].right_tag_cn>>

\* a sheet with one term on two rows with different tags has been loaded,
\* and the term-to-tag map holds the tag of the later row
C24_Witness ==
    /\ dict.pc = "ready"
    /\ \E j \in 1..Len(dict.rows), k \in 1..Len(dict.rows) :
         /\ j < k
         /\ dict.rows[j].right_tag_cn = dict.rows[k].right_tag_cn
         /\ dict.rows[j].tag # dict.rows[k].tag
         /\ LastWithTerm(k)
         /\ dict.cn_to_en_tag = << <<dict.rows[k].right_tag_cn, dict.rows[k].tag>> >>

\* C25 as stated: every term fuzzy_lookup_suggestions(s, ...) returns contains
\* s itself, also when s begins or ends with whitespace, and the empty s
\* gives the empty list
C25_SuggestionsContainInput ==
    ask.op = "fuzzy_lookup_suggestions" =>
      /\ \A k \in 1..Len(ask.result) : IsSubstring(ask.arg, ask.result[k])
      /\ ask.arg = << >> => ask.result = << >>

\* C25 amended: every returned term contains s with its leading and trailing
\* whitespace removed, and an s that is empty or all whitespace gives the
\* empty list
C25_SuggestionsContainStripped ==
    ask.op = "fuzzy_lookup_suggestions" =>
      /\ \A k \in 1..Len(ask.result) : IsSubstring(StrStrip(ask.arg), ask.result[k])
      /\ StrStrip(ask.arg) = << >> => ask.result = << >>

\* an input with trailing whitespace got some terms of the dictionary and
\* not others
C25_Witness ==
    /\ ask.op = "fuzzy_lookup_suggestions"
    /\ ask.arg # StrStrip(ask.arg)
    /\ ask.result # << >>
    /\ \E k \in 1..Len(dict.all_cn_tags) :
         \A j \in 1..Len(ask.result) : ask.result[j] # dict.all_cn_tags[k]

\* the row a term first appears on, and the tag of the last row it appears on
FirstRowOf(term) ==
    LET on == {k \in 1..Len(dict.rows) : dict.rows[k].right_tag_cn = term}
    IN  CHOOSE k \in on : \A j \in on : k <= j
MappedTagOf(term) ==
    LET on == {k \in 1..Len(dict.rows) : dict.rows[k].right_tag_cn = term}
    IN  dict.rows[CHOOSE k \in on : \A j \in on : k >= j].tag

\* the terms that contain the stripped input and whose tag is in the filter
AllowedMatches ==
    {term \in {entry.right_tag_cn : entry \in Entries} :
       /\ IsSubstring(StrStrip(ask.arg), term)
       /\ MappedTagOf(term) \in ask.allowed.tags}

\* C26: with an allowed-tag filter fuzzy_lookup_suggestions returns the first
\* 200, in load order, of the terms that contain the input and whose tag is
\* in the filter: at most 200 entries, none outside the filter, and an
\* allowed matching term is left out only when 200 of them precede it
C26_CapAfterFilter ==
    /\ ask.op = "fuzzy_lookup_suggestions"
    /\ ask.allowed.given
    /\ StrStrip(ask.arg) # << >>
    => LET first == [term \in AllowedMatches |-> FirstRowOf(term)]
           given == {ask.result[k] : k \in 1..Len(ask.result)}
       IN  /\ Len(ask.result) <= SuggestionCap
           /\ given \subseteq AllowedMatches
           /\ \A k \in 1..(Len(ask.result) - 1) :
                first[ask.result[k]] < first[ask.result[k + 1]]
           /\ \A term \in AllowedMatches \ given :
                /\ Len(ask.result) = SuggestionCap
                /\ \A other \in given : first[other] < first[term]

\* the long sheet is loaded and the filter keeps some of its terms out:
\* 200 terms come back, an allowed matching term is left out, and terms
\* outside the filter stand between the returned ones
C26_Witness ==
    /\ ask.op = "fuzzy_lookup_suggestions"
    /\ ask.allowed.given
    /\ Len(ask.result) = SuggestionCap
    /\ \E term \in AllowedMatches : \A k \in 1..Len(ask.result) : ask.result[k] # term
    /\ \E k \in 1..Len(dict.rows) :
         /\ IsSubstring(StrStrip(ask.arg), dict.rows[k].right_tag_cn)
         /\ dict.rows[k].tag \notin ask.allowed.tags
         /\ k < FirstRowOf(ask.result[Len(ask.result)])

(***************************************************************************)
(* C27 - C30: search_images_wrapper (app.py) over the dictionary and the   *)
(* store.  The texts of the titles and of the message are left out; a      *)
(* result names the branch that made the message and, per image, the tag   *)
(* assignments its title lists.                                            *)
(***************************************************************************)
\* the characters of the names the store holds
Spell(name) ==
    CASE name = "cat"    -> <<"c", "a", "t">>
      [] name = "hat"    -> <<"h", "a", "t">>
      [] name = "A"      -> <<"A">>
      [] name = "B"      -> <<"B">>
      [] name = "a1.jpg" -> <<"a", "1", ".", "j", "p", "g">>
      [] name = "a2.PNG" -> <<"a", "2", ".", "P", "N", "G">>
      [] name = "b1.gif" -> <<"b", "1", ".", "g", "i", "f">>

\* item['file_path'] as text
PathText(path) == Spell(path[1]) \o <<"/">> \o Spell(path[2])

\* get_all_indexed_tags: SELECT DISTINCT tag_name FROM tags
GetAllIndexedTags(d) == {Spell(row.tag_name) : row \in d.tags}

\* the order of the tags of one image: score descending
TagBefore(a, b) ==
    \/ a.score > b.score
    \/ /\ a.score = b.score
       /\ \E j \in 1..Len(TagNames), k \in 1..Len(TagNames) :
            j < k /\ TagNames[j] = a.tag_name /\ TagNames[k] = b.tag_name

\* a finite set as the list its order gives
ListBy(set, Before(_, _)) ==
    [k \in 1..Cardinality(set) |->
       CHOOSE e \in set : Cardinality({o \in set : Before(o, e)}) = k - 1]

ImageBefore(a, b) == a.image_id < b.image_id

\* get_all_indexed_images as the list it returns: ORDER BY image_id, score DESC
AllImagesData(d) ==
    LET records == ListBy(GetAllIndexedImages(d), ImageBefore)
    IN  [k \in 1..Len(records) |->
           [records[k] EXCEPT !.tags = ListBy(records[k].tags, TagBefore)]]

\* english_input.replace(",", " ").split(), empty tokens dropped
Tokens(text) ==
    LET sep(k)  == text[k] \in {" ", ","}
        starts  == {k \in 1..Len(text) : ~sep(k) /\ (k = 1 \/ sep(k - 1))}
        ends    == {k \in 1..Len(text) : ~sep(k) /\ (k = Len(text) \/ sep(k + 1))}
        nth(set, n) == CHOOSE k \in set : Cardinality({j \in set : j < k}) = n - 1
    IN  [n \in 1..Cardinality(starts) |-> SubSeq(text, nth(starts, n), nth(ends, n))]

\* fault variant: a typed substring is looked up although a term is selected
ModePartialFirst(cn_selected_tag, cn_partial_input) ==
    IF cn_partial_input # << >> THEN "B"
    ELSE IF Truthy(cn_selected_tag) THEN "A" ELSE "none"

\* step 2: mode A (a selected term), mode B (a typed substring), or neither
Mode(cn_selected_tag, cn_partial_input) ==
    IF Truthy(cn_selected_tag) THEN "A"
    ELSE IF cn_partial_input # << >> THEN "B" ELSE "none"

\* fault variant: an empty query counts as a failed search as well
FailedSearchAlways(user_intended_search, cn_search_tags, en_fuzzy_terms, file_name_input, show_favorites) ==
    /\ cn_search_tags = {} /\ en_fuzzy_terms = << >>
    /\ file_name_input = << >> /\ ~show_favorites

\* step 4: something was typed, and nothing is left to search for
FailedSearch(user_intended_search, cn_search_tags, en_fuzzy_terms, file_name_input, show_favorites) ==
    /\ user_intended_search
    /\ cn_search_tags = {} /\ en_fuzzy_terms = << >>
    /\ file_name_input = << >> /\ ~show_favorites

InRange(score, min_score, max_score) == min_score <= score /\ score <= max_score

\* fault variant: a tag that matched the exact set is tested against the
\* tokens as well
MatchedBoth(tag_info, cn_search_tags, en_fuzzy_terms, min_score, max_score) ==
    IF ~InRange(tag_info.score, min_score, max_score) THEN << >>
    ELSE (IF Spell(tag_info.tag_name) \in cn_search_tags
          THEN <<[tag_name |-> tag_info.tag_name, score |-> tag_info.score, label |-> "cn"]>>
          ELSE << >>)
         \o (IF \E k \in 1..Len(en_fuzzy_terms) :
                  IsSubstring(en_fuzzy_terms[k], Spell(tag_info.tag_name))
             THEN <<[tag_name |-> tag_info.tag_name, score |-> tag_info.score, label |-> "en"]>>
             ELSE << >>)

\* one pass of the loop over item['tags']: what it appends to matched_tags
Matched(tag_info, cn_search_tags, en_fuzzy_terms, min_score, max_score) ==
    IF ~InRange(tag_info.score, min_score, max_score) THEN << >>
    ELSE IF Spell(tag_info.tag_name) \in cn_search_tags
    THEN <<[tag_name |-> tag_info.tag_name, score |-> tag_info.score, label |-> "cn"]>>
    ELSE IF \E k \in 1..Len(en_fuzzy_terms) :
              IsSubstring(en_fuzzy_terms[k], Spell(tag_info.tag_name))
    THEN <<[tag_name |-> tag_info.tag_name, score |-> tag_info.score, label |-> "en"]>>
    ELSE << >>

RECURSIVE MatchedTags(_, _, _, _, _)
MatchedTags(tags, cn_search_tags, en_fuzzy_terms, min_score, max_score) ==
    IF tags = << >> THEN << >>
    ELSE Matched(Head(tags), cn_search_tags, en_fuzzy_terms, min_score, max_score)
         \o MatchedTags(Tail(tags), cn_search_tags, en_fuzzy_terms, min_score, max_score)

Plain(tags) ==
    [k \in 1..Len(tags) |->
       [tag_name |-> tags[k].tag_name, score |-> tags[k].score, label |-> "none"]]

\* step 6 for one image: dropped, or kept with the tags its title lists
Filtered(item, q, user_intended_search, cn_search_tags, en_fuzzy_terms, file_name_input) ==
    LET in_range == SelectSeq(item.tags,
                      LAMBDA t : InRange(t.score, q.min_score, q.max_score))
        matched  == MatchedTags(item.tags, cn_search_tags, en_fuzzy_terms,
                                q.min_score, q.max_score)
    IN  IF q.show_favorites /\ ~item.is_favorite
        THEN [keep |-> FALSE, title |-> "none", tags |-> << >>]
        ELSE IF /\ file_name_input # << >>
                /\ ~IsSubstring(file_name_input, StrLower(PathText(item.file_path)))
        THEN [keep |-> FALSE, title |-> "none", tags |-> << >>]
        ELSE IF cn_search_tags = {} /\ en_fuzzy_terms = << >>
        THEN IF ~user_intended_search
             THEN [keep |-> in_range # << >>, title |-> "in_range",
                   tags |-> FirstN(Plain(in_range), 5)]
             ELSE [keep |-> TRUE, title |-> "all", tags |-> FirstN(Plain(item.tags), 5)]
        ELSE [keep |-> matched # << >>, title |-> "matched", tags |-> matched]

SearchImagesWrapper(dc, d, q) ==
    LET cn_partial_input == StrStrip(q.cn_partial_input)
        english_input    == StrLower(StrStrip(q.english_input))
        file_name_input  == StrLower(StrStrip(q.file_name_input))
        user_intended_search ==
            \/ cn_partial_input # << >> \/ english_input # << >>
            \/ Truthy(q.cn_selected_tag)
            \/ file_name_input # << >> \/ q.show_favorites
        mode == Mode(q.cn_selected_tag, cn_partial_input)
        cn_terms_to_search ==
            CASE mode = "A" -> <<q.cn_selected_tag>>
              [] mode = "B" -> FuzzyLookupSuggestions(dc, cn_partial_input,
                                                      FilterOf(GetAllIndexedTags(d)))
              [] OTHER      -> << >>
        cn_search_tags   == GetSearchTagsFromCnList(dc, cn_terms_to_search)
        en_fuzzy_terms   == Tokens(english_input)
        all_images_data  == AllImagesData(d)
        verdict(k)       == Filtered(all_images_data[k], q, user_intended_search,
                                     cn_search_tags, en_fuzzy_terms, file_name_input)
        kept             == SelectSeq([k \in 1..Len(all_images_data) |-> k],
                                      LAMBDA k : verdict(k).keep)
        trace            == [cn_search_tags |-> cn_search_tags,
                             en_fuzzy_terms |-> en_fuzzy_terms,
                             fuzzy_lookups |-> IF mode = "B" THEN 1 ELSE 0]
    IN  IF FailedSearch(user_intended_search, cn_search_tags, en_fuzzy_terms,
                        file_name_input, q.show_favorites)
        THEN [message |-> "no_tags_found", output_data |-> << >>,
              filtered_raw_results |-> << >>, corpus_reads |-> 0] @@ trace
        ELSE IF all_images_data = << >>
        THEN [message |-> "database_empty", output_data |-> << >>,
              filtered_raw_results |-> << >>, corpus_reads |-> 1] @@ trace
        ELSE [message |-> IF mode = "none" /\ english_input = << >>
                             /\ file_name_input = << >> /\ ~q.show_favorites
                          THEN "show_all" ELSE "criteria",
              output_data |->
                [n \in 1..Len(kept) |->
                   [file_path |-> all_images_data[kept[n]].file_path,
                    title |-> verdict(kept[n]).title,
                    tags |-> verdict(kept[n]).tags]],
              filtered_raw_results |-> [n \in 1..Len(kept) |-> all_images_data[kept[n]]],
              corpus_reads |-> 1] @@ trace

\* the sheets of the dictionary the searches run on
SearchSheets ==
    {<< [right_tag_cn |-> <<"x">>, tag |-> <<"c", "A", "t">>],
        [right_tag_cn |-> <<"x", "y">>, tag |-> <<"h", "a", "t">>] >>,
     << [right_tag_cn |-> <<"x">>, tag |-> <<"d">>] >>}

\* the tag lists of the images the searches run on
SearchPredictions == {<<90000, 60000>>, <<50004, 40000>>}

\* the search criteria a caller passes
Queries ==
    [cn_partial_input : {<< >>, <<"x">>, <<"z">>, <<" ">>},
     cn_selected_tag  : {None, <<"x">>, <<"q">>},
     english_input    : {<< >>, <<"a", "t">>, <<"H", "A", ",", " ", "c">>},
     file_name_input  : {<< >>, <<"A", "1">>},
     min_score        : {0, 60000},
     max_score        : {90000},
     show_favorites   : BOOLEAN]

\* between two calls of the UI: an image is saved, a favorite flag toggled
StoreSaved(file_path, tags) ==
    /\ ask.op = "none"
    /\ SaveReturnsTrue(file_path, tags)

FavoriteToggled(image_id) ==
    /\ ask.op = "none"
    /\ db' = ToggleFlag(db, image_id)
    /\ UNCHANGED <<toggled, nonToggle>>

SearchCall(q) ==
    /\ dict.pc = "ready"
    /\ ask.op = "none"
    /\ ask' = [op |-> "search_images_wrapper", q |-> q,
               result |-> SearchImagesWrapper(dict, db, q)]
    /\ UNCHANGED <<dict, nonDict>>

NextSearch ==
    \/ LoadAbsent
    \/ LoadRaises
    \/ ReadSheet(SearchSheets)
    \/ LoadRow
    \/ FinishLoad
    \/ \E file_path \in SavePaths, p \in SearchPredictions : StoreSaved(file_path, FilteredTags(p))
    \/ \E image_id \in ToggleIds : FavoriteToggled(image_id)
    \/ \E partial_cn_term \in Partials : AskFuzzy(partial_cn_term, NoFilter)
    \/ \E cn_terms \in TermLists : AskSearchTags(cn_terms)
    \/ \E en_tag \in TagArgs : AskLookup(en_tag)
    \/ \E cn_tag \in TermArgs : AskIsCnTag(cn_tag)
    \/ \E q \in Queries : SearchCall(q)
    \/ CallReturns

SpecSearch == Init /\ [][NextSearch]_vars

\* ---------------------------------------------------------------------------
\* C27: a dictionary that is absent or fails to load
\* ---------------------------------------------------------------------------

Degraded == dict.pc = "ready" /\ dict.source \in {"absent", "unreadable"}

\* the file paths of a search's output
PathsOf(output_data) == {output_data[n].file_path : n \in 1..Len(output_data)}

\* a search that names no dictionary term: tokens, a file name or favorites
WithoutDictionary(q) ==
    /\ ~Truthy(q.cn_selected_tag)
    /\ StrStrip(q.cn_partial_input) = << >>
    /\ \/ Tokens(StrLower(StrStrip(q.english_input))) # << >>
       \/ StrStrip(q.file_name_input) # << >>
       \/ q.show_favorites

\* the images of the corpus such a search is to return
MatchesWithoutDictionary(d, q) ==
    LET tokens == Tokens(StrLower(StrStrip(q.english_input)))
        name   == StrLower(StrStrip(q.file_name_input))
    IN  {item.file_path : item \in
           {i \in GetAllIndexedImages(d) :
              /\ q.show_favorites => i.is_favorite
              /\ name # << >> => IsSubstring(name, StrLower(PathText(i.file_path)))
              /\ tokens # << >> =>
                   \E t \in i.tags :
                      /\ InRange(t.score, q.min_score, q.max_score)
                      /\ \E k \in 1..Len(tokens) :
                            IsSubstring(tokens[k], Spell(t.tag_name))}}

\* C27: when the dictionary file is absent or fails to load, both mappings
\* and the term list are empty; fuzzy_lookup_suggestions answers [],
\* get_search_tags_from_cn_list answers no tag, lookup_en_to_cn answers None
\* and is_cn_tag answers false, whatever the argument; and a search by
\* tokens, file name or favorites only returns exactly the images of the
\* corpus that match them.
C27_DegradedDictionary ==
    Degraded =>
      /\ dict.cn_to_en_tag = << >>
      /\ dict.en_to_cn_tag = << >>
      /\ dict.all_cn_tags = << >>
      /\ ask.op = "fuzzy_lookup_suggestions" => ask.result = << >>
      /\ ask.op = "get_search_tags_from_cn_list" => ask.result = {}
      /\ ask.op = "lookup_en_to_cn" => ask.result = None
      /\ ask.op = "is_cn_tag" => ask.result = FALSE
      /\ (ask.op = "search_images_wrapper" /\ WithoutDictionary(ask.q)) =>
            /\ ask.result.message # "no_tags_found"
            /\ PathsOf(ask.result.output_data) = MatchesWithoutDictionary(db, ask.q)

\* the file failed to load and a search by token alone found an image
C27_Witness ==
    /\ Degraded
    /\ dict.source = "unreadable"
    /\ ask.op = "search_images_wrapper"
    /\ WithoutDictionary(ask.q)
    /\ ask.q.file_name_input = << >>
    /\ ~ask.q.show_favorites
    /\ ask.result.output_data # << >>
    /\ Cardinality(GetAllIndexedImages(db)) = 2
    /\ Len(ask.result.output_data) = 1

\* ---------------------------------------------------------------------------
\* C28: a selected term comes before the typed substring
\* ---------------------------------------------------------------------------

\* the tags the loaded dictionary maps a term to
ResolvedOf(term) ==
    {dict.cn_to_en_tag[k][2] :
       k \in {j \in 1..Len(dict.cn_to_en_tag) :
                /\ dict.cn_to_en_tag[j][1] = term
                /\ dict.cn_to_en_tag[j][2] # << >>}}

\* C28: when a term is selected, the exact-tag set of the search is exactly
\* the tag(s) the dictionary maps that term to, and fuzzy_lookup_suggestions
\* is not called, whatever was typed as a substring.
C28_SelectedTermFirst ==
    (ask.op = "search_images_wrapper" /\ Truthy(ask.q.cn_selected_tag)) =>
        /\ ask.result.cn_search_tags = ResolvedOf(ask.q.cn_selected_tag)
        /\ ask.result.fuzzy_lookups = 0

\* a term was selected while a substring that matches no term was typed, and
\* the search went by the term's tag
C28_Witness ==
    /\ ask.op = "search_images_wrapper"
    /\ ask.q.cn_selected_tag = <<"x">>
    /\ ask.q.cn_partial_input = <<"z">>
    /\ ask.result.cn_search_tags = {<<"c", "a", "t">>}
    /\ ask.result.output_data # << >>

\* ---------------------------------------------------------------------------
\* C29: a search that found no tag to search for, and the empty query
\* ---------------------------------------------------------------------------

\* the terms of the dictionary that contain the substring and whose tag some
\* indexed image carries
SuggestedFor(partial) ==
    {dict.cn_to_en_tag[k][1] :
       k \in {j \in 1..Len(dict.cn_to_en_tag) :
                /\ IsSubstring(partial, dict.cn_to_en_tag[j][1])
                /\ \E row \in db.tags : Spell(row.tag_name) = dict.cn_to_en_tag[j][2]}}

\* only a substring was typed, and no term is suggested for it
OnlyUnresolvedSubstring(q) ==
    /\ ~Truthy(q.cn_selected_tag)
    /\ StrStrip(q.cn_partial_input) # << >>
    /\ SuggestedFor(StrStrip(q.cn_partial_input)) = {}
    /\ StrStrip(q.english_input) = << >>
    /\ StrStrip(q.file_name_input) = << >>
    /\ ~q.show_favorites

\* nothing was typed, selected or ticked
EmptyQuery(q) ==
    /\ ~Truthy(q.cn_selected_tag)
    /\ StrStrip(q.cn_partial_input) = << >>
    /\ StrStrip(q.english_input) = << >>
    /\ StrStrip(q.file_name_input) = << >>
    /\ ~q.show_favorites

\* the indexed images with at least one tag row whose score is in the range
ImagesInRange(d, min_score, max_score) ==
    {img.file_path : img \in
       {i \in d.images :
          \E row \in d.tags : /\ row.image_id = i.image_id
                              /\ InRange(row.score, min_score, max_score)}}

\* C29: a search with a substring for which no term is suggested, nothing in
\* the token field, no file name and favorites off answers "no tags found"
\* with no result and without calling get_all_indexed_images; a search with
\* nothing typed at all returns exactly the indexed images that have at least
\* one tag whose score is within [min_score, max_score].
C29_NoTagsFoundOrShowAll ==
    ask.op = "search_images_wrapper" =>
        /\ OnlyUnresolvedSubstring(ask.q) =>
              /\ ask.result.message = "no_tags_found"
              /\ ask.result.output_data = << >>
              /\ ask.result.filtered_raw_results = << >>
              /\ ask.result.corpus_reads = 0
        /\ EmptyQuery(ask.q) =>
              /\ ask.result.message # "no_tags_found"
              /\ PathsOf(ask.result.output_data)
                   = ImagesInRange(db, ask.q.min_score, ask.q.max_score)
              /\ Len(ask.result.output_data)
                   = Cardinality(ImagesInRange(db, ask.q.min_score, ask.q.max_score))

\* the dictionary has a term with the substring but no indexed image carries
\* its tag: "no tags found" although the store holds two images
C29_Witness ==
    /\ ask.op = "search_images_wrapper"
    /\ OnlyUnresolvedSubstring(ask.q)
    /\ ask.q.cn_partial_input = <<"x">>
    /\ dict.all_cn_tags # << >>
    /\ Cardinality(db.images) = 2
    /\ ask.result.message = "no_tags_found"

\* nothing was typed: one of two images has a tag in the range and is shown
C29_WitnessShowAll ==
    /\ ask.op = "search_images_wrapper"
    /\ EmptyQuery(ask.q)
    /\ ask.q.cn_partial_input = <<" ">>
    /\ Cardinality(db.images) = 2
    /\ Len(ask.result.output_data) = 1
    /\ ask.result.message = "show_all"

\* ---------------------------------------------------------------------------
\* C30: the search by tags
\* ---------------------------------------------------------------------------

\* the image passes the favorites filter and the file name filter
PassesFilters(item, q) ==
    /\ q.show_favorites => item.is_favorite
    /\ StrStrip(q.file_name_input) # << >> =>
          IsSubstring(StrLower(StrStrip(q.file_name_input)), StrLower(PathText(item.file_path)))

\* the tag assignment is in the score range and named by the search
TagMatches(t, q, result) ==
    /\ q.min_score <= t.score /\ t.score <= q.max_score
    /\ \/ Spell(t.tag_name) \in result.cn_search_tags
       \/ \E k \in 1..Len(result.en_fuzzy_terms) :
             IsSubstring(result.en_fuzzy_terms[k], Spell(t.tag_name))

\* C30: when the search has exact tags or tokens, an image that passes the
\* favorites and file name filters is in the output iff one of its tag
\* assignments has a score in [min_score, max_score] (both ends included) and
\* a name that is in the exact-tag set or contains a token; the output lists
\* the image once and annotates each such assignment exactly once, as an
\* exact match when its name is in the exact-tag set and as a fuzzy match
\* otherwise, and annotates nothing else.
C30_KeptIffTagMatches ==
    (/\ ask.op = "search_images_wrapper"
     /\ (ask.result.cn_search_tags # {} \/ ask.result.en_fuzzy_terms # << >>)) =>
        LET q      == ask.q
            result == ask.result
            out    == result.output_data
        IN  /\ \A item \in GetAllIndexedImages(db) :
                  LET hits == {t \in item.tags : TagMatches(t, q, result)}
                      at   == {n \in 1..Len(out) : out[n].file_path = item.file_path}
                  IN  /\ (at # {}) <=> (PassesFilters(item, q) /\ hits # {})
                      /\ Cardinality(at) <= 1
                      /\ \A n \in at :
                            /\ out[n].title = "matched"
                            /\ Len(out[n].tags) = Cardinality(hits)
                            /\ \A t \in hits :
                                  \E k \in 1..Len(out[n].tags) :
                                     out[n].tags[k] =
                                        [tag_name |-> t.tag_name, score |-> t.score,
                                         label |-> IF Spell(t.tag_name) \in result.cn_search_tags
                                                   THEN "cn" ELSE "en"]
            /\ \A n \in 1..Len(out) :
                  \E item \in GetAllIndexedImages(db) : item.file_path = out[n].file_path

\* a tag in the exact-tag set that also contains a token is annotated once, as
\* an exact match, next to a tag that only contains the token; another image
\* is left out because its only such tag is below min_score
C30_Witness ==
    /\ ask.op = "search_images_wrapper"
    /\ ask.result.cn_search_tags = {<<"c", "a", "t">>}
    /\ ask.result.en_fuzzy_terms = << <<"a", "t">> >>
    /\ ask.q.min_score = 60000
    /\ Cardinality(GetAllIndexedImages(db)) = 2
    /\ Len(ask.result.output_data) = 1
    /\ Len(ask.result.output_data[1].tags) = 2
    /\ \E k \in 1..2 : ask.result.output_data[1].tags[k].label = "cn"
    /\ \E k \in 1..2 : ask.result.output_data[1].tags[k].label = "en"

\* ---------------------------------------------------------------------------
\* C31: the score range when no tag is searched for
\* ---------------------------------------------------------------------------

\* the search came to the filter loop with no exact tag and no token
NoTagCriteria(result) ==
    /\ result.message \in {"show_all", "criteria"}
    /\ result.cn_search_tags = {}
    /\ result.en_fuzzy_terms = << >>

\* C31: in a search with no exact tag and no token (file name only, favorites
\* only, or nothing typed), an image that passes the favorites and file name
\* filters is in the output iff one of its tags has a score within
\* [min_score, max_score].
C31_RangeWithoutTags ==
    (ask.op = "search_images_wrapper" /\ NoTagCriteria(ask.result)) =>
        \A item \in GetAllIndexedImages(db) :
           (item.file_path \in PathsOf(ask.result.output_data))
             <=> /\ PassesFilters(item, ask.q)
                 /\ \E t \in item.tags : InRange(t.score, ask.q.min_score, ask.q.max_score)

\* ---------------------------------------------------------------------------
\* C32: favorites and the file name only narrow a search
\* ---------------------------------------------------------------------------

\* the paths the same search returns over the same store and dictionary when
\* favorites is not ticked, and when no file name is given
WithoutFavorites(q) ==
    PathsOf(SearchImagesWrapper(dict, db, [q EXCEPT !.show_favorites = FALSE]).output_data)

WithoutFileName(q) ==
    PathsOf(SearchImagesWrapper(dict, db, [q EXCEPT !.file_name_input = << >>]).output_data)

\* C32: the favorites, file name and tag/score tests are combined by AND: a
\* search with favorites ticked returns only favorited images and a subset of
\* what the same search returns without it, and a search with a file name
\* returns only images whose path contains it and a subset of what the same
\* search returns without a file name.
C32_NarrowingNeverAdds ==
    ask.op = "search_images_wrapper" =>
        LET q   == ask.q
            out == ask.result.filtered_raw_results
        IN  /\ q.show_favorites =>
                  /\ \A n \in 1..Len(out) : out[n].is_favorite
                  /\ PathsOf(ask.result.output_data) \subseteq WithoutFavorites(q)
            /\ StrStrip(q.file_name_input) # << >> =>
                  /\ \A n \in 1..Len(out) :
                        IsSubstring(StrLower(StrStrip(q.file_name_input)),
                                    StrLower(PathText(out[n].file_path)))
                  /\ PathsOf(ask.result.output_data) \subseteq WithoutFileName(q)

\* ---------------------------------------------------------------------------
\* C34: what a scan writes is at or above the threshold
\* ---------------------------------------------------------------------------

\* C34: every tag row of the index has a score at or above the tagger's
\* threshold, the list process_image returned holds no score below it, and
\* the rows a scan's save leaves for the file are exactly that list.
C34_SavedAtOrAboveThreshold ==
    /\ \A row \in db.tags : row.score >= SCORE_THRESHOLD
    /\ \A t \in Threads :
          /\ \A tag \in tags_list[t].tags : tag.score >= SCORE_THRESHOLD
          /\ (pc[t] = "progress" /\ save_result[t] = "saved") =>
                TagsOf(db, files_to_scan[t][idx[t]]) = tags_list[t].tags

\* a scan saved a list whose raw score 0.50004 passed the threshold and was
\* stored as 0.5, while the other tag of the prediction was left out
C34_Witness ==
    \E t \in Threads :
       /\ pc[t] = "progress"
       /\ save_result[t] = "saved"
       /\ tags_list[t].tags = FilteredTags(<<50004, 40000>>)
       /\ \E row \in db.tags : row.score = SCORE_THRESHOLD
       /\ Cardinality(TagsOf(db, files_to_scan[t][idx[t]])) = 1

\* ---------------------------------------------------------------------------
\* C33: process_image on an image that cannot be tagged
\* ---------------------------------------------------------------------------

\* what process_image meets: the file, the model's predict call, its output
TaggerImages ==
    {[file |-> "missing", predict |-> "ok", prediction |-> <<50004, 50004>>],
     [file |-> "unreadable", predict |-> "ok", prediction |-> <<50004, 50004>>],
     [file |-> "readable", predict |-> "raises", prediction |-> <<50004, 50004>>],
     [file |-> "readable", predict |-> "wrong_length", prediction |-> <<50004>>]}
    \cup {[file |-> "readable", predict |-> "ok", prediction |-> p] : p \in Predictions}

\* the image could not be tagged
TaggingFailed(image) == image.file # "readable" \/ image.predict # "ok"

\* _perform_danbooru_prediction: [] when the image cannot be preprocessed, when
\* predict raises and when the output has the wrong length
PerformDanbooruPrediction(image) ==
    IF image.file = "unreadable" THEN << >>
    ELSE IF image.predict = "raises" THEN << >>
    ELSE IF Len(image.prediction) # Len(TagNames) THEN << >>
    ELSE image.prediction

\* process_image: the filtered tags it returns next to the path
ProcessImage(image) ==
    IF image.file = "missing" THEN {}
    ELSE LET raw_predictions == PerformDanbooruPrediction(image)
         IN  IF raw_predictions = << >> THEN {} ELSE FilteredTags(raw_predictions)

nonTagger == <<engineVars, lock, held, rescanVars, storeVars, dict, toggled>>

\* the scan loop calls process_image for a file
ProcessImageCall(file_path, image) ==
    /\ ask.op = "none"
    /\ ask' = [op |-> "process_image", file_path |-> file_path, image |-> image,
               result |-> ProcessImage(image)]
    /\ UNCHANGED <<db, nonTagger>>

\* the scan loop with a non-empty tags_list: save_tags_to_db
SaveTagsList ==
    /\ ask.op = "process_image"
    /\ ask.result # {}
    /\ db' = SaveTagsToDb(db, ask.file_path, ask.result)
    /\ ask' = NoAsk
    /\ UNCHANGED nonTagger

\* the scan loop with an empty tags_list: the file is skipped
SkipFile ==
    /\ ask.op = "process_image"
    /\ ask.result = {}
    /\ ask' = NoAsk
    /\ UNCHANGED <<db, nonTagger>>

NextTagger ==
    \/ \E file_path \in SavePaths, image \in TaggerImages : ProcessImageCall(file_path, image)
    \/ SaveTagsList
    \/ SkipFile

SpecTagger == Init /\ [][NextTagger]_vars

\* C33: what process_image returns for an image it could not tag (missing or
\* unreadable file, failed prediction) differs from what it returns for an
\* image that was tagged and has no tag at or above the threshold.
C33_FailureDistinct ==
    (ask.op = "process_image" /\ TaggingFailed(ask.image)) =>
        \A image \in TaggerImages :
           ~TaggingFailed(image) => ProcessImage(image) # ask.result

\* C33, second half: whenever process_image returned no tag, for either
\* reason, the scan goes on without saving anything.
C33_SkipAndContinue ==
    [][(ask.op = "process_image" /\ ask.result = {}) => (db' = db /\ ask' = NoAsk)]_vars

\* ---------------------------------------------------------------------------
\* C35: the counters of a status snapshot
\* ---------------------------------------------------------------------------

\* C35: in every snapshot get_status returns, files_processed is between 0
\* and total_files and progress_percent is between 0 and 100.
C35_CountersInRange ==
    snap.taken =>
        /\ 0 <= snap.st.files_processed
        /\ snap.st.files_processed <= snap.st.total_files
        /\ 0 <= snap.st.progress_percent
        /\ snap.st.progress_percent <= 100

\* ---------------------------------------------------------------------------
\* C36: what a re-save leaves alone
\* ---------------------------------------------------------------------------

\* the tag rows of all images but one
TagsOfOthers(d, image_id) == {row \in d.tags : row.image_id # image_id}

\* C36: a save_tags_to_db for a path that is already indexed leaves the image
\* table as it was (same identifier, same favorite flag for that image, every
\* other image untouched, no image added) and every other image's tag rows
\* as they were; the tag rows of the image become the saved list.
C36_ResaveKeepsIdAndFlag ==
    [][\A file_path \in SavePaths, tags \in TagLists :
          (/\ SaveReturnsTrue(file_path, tags)
           /\ \E row \in db.images : row.file_path = NormPath(file_path)) =>
              LET image_id == ImageIdOf(db, NormPath(file_path))
              IN  /\ db'.images = db.images
                  /\ ImageIdOf(db', NormPath(file_path)) = image_id
                  /\ TagsOfOthers(db', image_id) = TagsOfOthers(db, image_id)
                  /\ TagsOf(db', NormPath(file_path)) = tags]_vars

\* an image was favorited and then saved again with other tags: it is still
\* a favorite under the same identifier, next to a second image
C36_Witness ==
    /\ toggled.op = "toggle"
    /\ toggled.outcome = "returned"
    /\ toggled.returned = TRUE
    /\ Cardinality(db.images) = 2
    /\ toggled.after.images = db.images
    /\ \E row \in db.images :
          /\ row.image_id = toggled.image_id
          /\ row.is_favorite
          /\ TagsOf(db, row.file_path) # TagsOf(toggled.after, row.file_path)
          /\ TagsOfOthers(db, row.image_id) = TagsOfOthers(toggled.after, row.image_id)
          /\ TagsOfOthers(db, row.image_id) # {}

\* ---------------------------------------------------------------------------
\* C37: toggle_favorite_status while save_tags_to_db calls run
\* ---------------------------------------------------------------------------

\* what a toggle_favorite_status call leaves alone next to the store
nonRace == <<txn, lastSaved, saves, engineVars, lock, held, rescanVars, dict, ask>>

\* the holder of the write lock while a toggle_favorite_status call has it
TogglerConn == "toggle"

\* no toggle_favorite_status call is under way
NoToggleRunning == IF toggled.op = "none" THEN TRUE ELSE toggled.outcome # "running"

\* UPDATE images SET is_favorite = 1 - is_favorite, then the SELECT of the new
\* status: the UPDATE waits for the write lock and takes it
ToggleUpdate(image_id) ==
    /\ NoToggleRunning
    /\ writer = "none"
    /\ writer' = TogglerConn
    /\ toggled' = [op |-> "toggle", image_id |-> image_id,
                   known |-> \E row \in db.images : row.image_id = image_id,
                   outcome |-> "running",
                   returned |-> NewStatus(ToggleFlag(db, image_id), image_id),
                   before |-> db, after |-> ToggleFlag(db, image_id)]
    /\ UNCHANGED <<db, nonRace>>

\* conn.commit(), return the new status, close
ToggleCommit ==
    /\ toggled.op = "toggle"
    /\ toggled.outcome = "running"
    /\ db' = toggled.after
    /\ writer' = "none"
    /\ toggled' = [toggled EXCEPT !.outcome = "returned",
                                  !.before = EmptyDb, !.after = EmptyDb]
    /\ UNCHANGED nonRace

\* the UPDATE gives up waiting for a save that holds the write lock: the
\* sqlite3.Error is caught, rolled back and answered with False
ToggleBusy(image_id) ==
    /\ NoToggleRunning
    /\ writer \in Conns
    /\ toggled' = [op |-> "toggle", image_id |-> image_id,
                   known |-> \E row \in db.images : row.image_id = image_id,
                   outcome |-> "sqlite_error", returned |-> FALSE,
                   before |-> EmptyDb, after |-> EmptyDb]
    /\ UNCHANGED <<db, writer, nonRace>>

\* the connection of the scan thread's save_tags_to_db calls (one scan runs
\* at a time) and the tag lists it saves
ScanConns == {"c1"}
ScanTagLists == {FilteredTags(p) : p \in SearchPredictions}

NextRace ==
    \/ \E c \in ScanConns, file_path \in SavePaths, tags \in ScanTagLists : SaveBegin(c, file_path, tags)
    \/ \E c \in ScanConns : SaveUpsert(c)
    \/ \E c \in ScanConns : SaveSelectId(c)
    \/ \E c \in ScanConns : SaveDelete(c)
    \/ \E c \in ScanConns : SaveInsert(c)
    \/ \E c \in ScanConns : SaveCommit(c)
    \/ \E c \in ScanConns : SaveAborts(c)
    \/ \E image_id \in ToggleIds : ToggleUpdate(image_id)
    \/ ToggleCommit
    \/ \E image_id \in ToggleIds : ToggleBusy(image_id)

SpecRace == Init /\ [][NextRace]_vars

C38_EveryFolderScanned ==
    \A t \in Threads :
       \A k \in 1..Len(allowed_paths) :
          (IsDir(allowed_paths[k]) /\ wpos[t] > k) =>
             \E i \in 1..Len(wlog[t]) : wlog[t][i] = k

====
